---- MODULE Spec2Model ----
(***************************************************************************)
(* The f6n terminal dashboard: the Bubble Tea Model of package ui (its     *)
(* Update function, key handlers and the commands it issues) together with *)
(* the provider's log stream.  One action per message handled by Update.   *)
(*                                                                         *)
(* Strings the program inspects (filter text, function fields) are         *)
(* sequences of one-character strings.  Time is counted in minutes.        *)
(***************************************************************************)
EXTENDS Naturals, Integers, Sequences, FiniteSets, Bags, TLC

\* ---------------------------------------------------------------- bounds
\* longest text typed into the text input
MaxInput == 2
\* most commands in flight at once
MaxInFlight == 2
\* last minute of the clock
MaxTime == 1
\* most stream contexts live at once
MaxCtx == 2
\* most lines kept in the real-time buffer by the model's runs
MaxLines == 3
\* longest registry / filter text drawn for the filter function on its own
MaxReg == 2
MaxFilterLen == 2
\* most entries in an archive
MaxEntries == 2
\* latest timestamp of a log entry, in clock units
MaxStamp == 3
\* clock units in a second (timestamps are finer than RFC 3339 text)
UnitsPerSecond == 2
\* longest command typed (pasted text may exceed it once)
MaxCommand == 3
\* most save banners stacked above the displayed text
MaxBanners == 1

\* ------------------------------------------------------ program constants
\* lookback of a fresh stream: time.Now().Add(-1 * time.Minute)
Lookback == 1
\* realTimeLogs keeps the last 1000 lines
LogCap == 1000

\* ---------------------------------------------------------------- strings

\* unicode.ToLower on the characters of the model's alphabet
LowerChar(c) ==
    CASE c = "A" -> "a"
      [] c = "B" -> "b"
      [] OTHER -> c

\* strings.ToLower
ToLower(s) == [i \in DOMAIN s |-> LowerChar(s[i])]

RECURSIVE TrimLeft(_)
TrimLeft(s) == IF s # <<>> /\ Head(s) = " " THEN TrimLeft(Tail(s)) ELSE s

RECURSIVE TrimRight(_)
TrimRight(s) ==
    IF s # <<>> /\ s[Len(s)] = " " THEN TrimRight(SubSeq(s, 1, Len(s) - 1)) ELSE s

\* strings.TrimSpace
TrimSpace(s) == TrimRight(TrimLeft(s))

\* strings.Contains
Contains(s, sub) ==
    \E i \in 0..(Len(s) - Len(sub)) : SubSeq(s, i + 1, i + Len(sub)) = sub

\* ------------------------------------------------------------- functions
\* provider.FunctionInfo, the fields the program's logic reads
FnA == [Name |-> <<"a">>, Runtime |-> <<"g", "o">>, Description |-> <<>>]
FnB == [Name |-> <<"b">>, Runtime |-> <<"G", "o">>, Description |-> <<"A", " ", "r">>]
NoFunc == [Name |-> <<>>, Runtime |-> <<>>, Description |-> <<>>]

\* the listings ListFunctions returns in the model's runs
Registries == {<<>>, <<FnA>>, <<FnA, FnB>>}

\* one test of the filter loop's condition
FilterMatch(fn, filterText) ==
    \/ Contains(ToLower(fn.Name), filterText)
    \/ Contains(ToLower(fn.Runtime), filterText)
    \/ Contains(ToLower(fn.Description), filterText)

\* the filter loop on the text as typed, its white space kept
FilterNoTrim(all, value) ==
    LET filterText == ToLower(value)
    IN  IF filterText = <<>> THEN all
        ELSE SelectSeq(all, LAMBDA fn : FilterMatch(fn, filterText))

\* Model.filterFunctions: the new m.functions for m.allFunctions = all and
\* m.textInput.Value() = value
filterFunctions(all, value) ==
    LET filterText == ToLower(TrimSpace(value))
    IN  IF filterText = <<>> THEN all
        ELSE SelectSeq(all, LAMBDA fn : FilterMatch(fn, filterText))

\* ------------------------------------------------------- paths and files
\* strings.HasPrefix
HasPrefix(s, prefix) ==
    Len(prefix) <= Len(s) /\ SubSeq(s, 1, Len(prefix)) = prefix

RECURSIVE SplitPath(_)
\* the elements of a path between its separators (empty ones included)
SplitPath(s) ==
    IF \A i \in DOMAIN s : s[i] # "/" THEN <<s>>
    ELSE LET i == CHOOSE k \in DOMAIN s :
                      s[k] = "/" /\ \A h \in 1..(k - 1) : s[h] # "/"
         IN  <<SubSeq(s, 1, i - 1)>> \o SplitPath(SubSeq(s, i + 1, Len(s)))

RECURSIVE CleanElements(_, _, _)
\* filepath.Clean on the elements still to read, `out` being the elements kept
CleanElements(elems, out, rooted) ==
    IF elems = <<>> THEN out
    ELSE LET e == Head(elems)
             rest == Tail(elems)
         IN  IF e = <<>> \/ e = <<".">> THEN CleanElements(rest, out, rooted)
             ELSE IF e = <<".", ".">>
             THEN IF out # <<>> /\ out[Len(out)] # <<".", ".">>
                  THEN CleanElements(rest, SubSeq(out, 1, Len(out) - 1), rooted)
                  ELSE IF rooted THEN CleanElements(rest, out, rooted)
                  ELSE CleanElements(rest, Append(out, e), rooted)
             ELSE CleanElements(rest, Append(out, e), rooted)

RECURSIVE JoinElements(_)
JoinElements(elems) ==
    IF elems = <<>> THEN <<>>
    ELSE IF Len(elems) = 1 THEN elems[1]
    ELSE elems[1] \o <<"/">> \o JoinElements(Tail(elems))

\* filepath.Clean
Clean(s) ==
    LET rooted == s # <<>> /\ s[1] = "/"
        kept == CleanElements(SplitPath(s), <<>>, rooted)
    IN  IF rooted THEN <<"/">> \o JoinElements(kept)
        ELSE IF kept = <<>> THEN <<".">>
        ELSE JoinElements(kept)

\* filepath.Join of two elements
Join(a, b) ==
    IF a = <<>> /\ b = <<>> THEN <<>>
    ELSE IF a = <<>> THEN Clean(b)
    ELSE IF b = <<>> THEN Clean(a)
    ELSE Clean(a \o <<"/">> \o b)

\* filepath.Dir of a clean relative path
Dir(p) ==
    LET seps == {i \in DOMAIN p : p[i] = "/"}
    IN  IF seps = {} THEN <<".">>
        ELSE Clean(SubSeq(p, 1, (CHOOSE i \in seps : \A j \in seps : j <= i) - 1))

\* what a path of the disk holds: a directory, or a file with its data
IsDir == "dir"
NoFiles == [p \in {} |-> IsDir]

\* the directories above the clean relative path p
Ancestors(p) == {SubSeq(p, 1, i - 1) : i \in {k \in DOMAIN p : p[k] = "/" /\ k > 1}}

\* os.MkdirAll: the disk after it and whether it failed (a file is in the way)
MkdirAll(fs, p) ==
    LET chain == Ancestors(p) \cup {p}
        blocked == \E q \in chain : q \in DOMAIN fs /\ fs[q] # IsDir
    IN  IF blocked THEN [fs |-> fs, err |-> TRUE]
        ELSE [fs |-> [q \in DOMAIN fs \cup chain |->
                         IF q \in DOMAIN fs THEN fs[q] ELSE IsDir],
              err |-> FALSE]

\* os.OpenFile(O_WRONLY|O_CREATE|O_TRUNC) and io.Copy of data: fails on a
\* directory or under a missing directory
WriteFile(fs, p, data) ==
    IF \/ (p \in DOMAIN fs /\ fs[p] = IsDir)
       \/ (Dir(p) # <<".">> /\ ~(Dir(p) \in DOMAIN fs /\ fs[Dir(p)] = IsDir))
    THEN [fs |-> fs, err |-> TRUE]
    ELSE [fs |-> [q \in DOMAIN fs \cup {p} |-> IF q = p THEN data ELSE fs[q]],
          err |-> FALSE]

\* os.Remove of a file
RemoveFile(fs, p) == [q \in DOMAIN fs \ {p} |-> fs[q]]

\* a zip entry: its name, and whether its mode says directory (a name that
\* ends in a separator always does)
Entry(name, dir) ==
    [name |-> name, dir |-> dir \/ (name # <<>> /\ name[Len(name)] = "/")]

RECURSIVE extractUnguarded(_, _, _, _)
\* the loop of extractZip with the guard's prefix taken without the separator
extractUnguarded(fs, dest, entries, data) ==
    IF entries = <<>> THEN [fs |-> fs, err |-> FALSE]
    ELSE LET file == Head(entries)
             path == Join(dest, file.name)
         IN  IF ~HasPrefix(path, Clean(dest)) THEN [fs |-> fs, err |-> TRUE]
             ELSE IF file.dir
             THEN LET made == MkdirAll(fs, path)
                  IN  IF made.err THEN made
                      ELSE extractUnguarded(made.fs, dest, Tail(entries), data)
             ELSE LET made == MkdirAll(fs, Dir(path))
                  IN  IF made.err THEN made
                      ELSE LET written == WriteFile(made.fs, path, data)
                           IN  IF written.err THEN written
                               ELSE extractUnguarded(written.fs, dest, Tail(entries), data)

RECURSIVE extractEntries(_, _, _, _)
\* the loop of GCPProvider.extractZip over the entries still to extract
extractEntries(fs, dest, entries, data) ==
    IF entries = <<>> THEN [fs |-> fs, err |-> FALSE]
    ELSE LET file == Head(entries)
             path == Join(dest, file.name)
         IN  IF ~HasPrefix(path, Clean(dest) \o <<"/">>)
             THEN [fs |-> fs, err |-> TRUE]
             ELSE IF file.dir
             THEN LET made == MkdirAll(fs, path)
                  IN  IF made.err THEN made
                      ELSE extractEntries(made.fs, dest, Tail(entries), data)
             ELSE LET made == MkdirAll(fs, Dir(path))
                  IN  IF made.err THEN made
                      ELSE LET written == WriteFile(made.fs, path, data)
                           IN  IF written.err THEN written
                               ELSE extractEntries(written.fs, dest, Tail(entries), data)

\* GCPProvider.extractZip: zip.OpenReader fails on a corrupt archive, else
\* the entries are extracted in order
extractZip(fs, dest, archive, data) ==
    IF archive.corrupt THEN [fs |-> fs, err |-> TRUE]
    ELSE extractEntries(fs, dest, archive.entries, data)

\* --------------------------------------------------------------- downloads
Downloads == <<"d", "o", "w", "n", "l", "o", "a", "d", "s">>
SourceZip == <<"s", "o", "u", "r", "c", "e", ".", "z", "i", "p">>
CloneInstructions ==
    <<"c", "l", "o", "n", "e", "_", "i", "n", "s", "t", "r", "u", "c", "t", "i", "o", "n", "s", ".", "t", "x", "t">>

\* where a function's code comes from: the provider's answer for it
Source(kind, archive) == [kind |-> kind, archive |-> archive]

\* GCPProvider.downloadFromGCS
downloadFromGCS(fs, dest, source, data) ==
    IF source.kind = "archive unreachable" THEN [fs |-> fs, err |-> TRUE]
    ELSE LET made == MkdirAll(fs, dest)
             tempFile == Join(dest, SourceZip)
             created == WriteFile(made.fs, tempFile, "zip")
             extracted == extractZip(created.fs, dest, source.archive, data)
         IN  IF made.err THEN made
             ELSE IF created.err THEN created
             ELSE IF extracted.err THEN extracted
             ELSE [fs |-> RemoveFile(extracted.fs, tempFile), err |-> FALSE]

\* a provider that reports success for a function with no downloadable
\* source
DownloadFunctionCodeLenient(fs, destination, source, data) ==
    IF source.kind \in {"unimplemented", "get fails"} THEN [fs |-> fs, err |-> TRUE]
    ELSE LET made == MkdirAll(fs, destination)
         IN  IF made.err THEN made
             ELSE IF source.kind \in {"archive", "archive unreachable"}
             THEN downloadFromGCS(made.fs, destination, source, data)
             ELSE IF source.kind = "repository"
             THEN WriteFile(made.fs, Join(destination, CloneInstructions), data)
             ELSE [fs |-> made.fs, err |-> FALSE]

\* Provider.DownloadFunctionCode (GCPProvider's; AWSProvider's is not
\* implemented and fails at once)
DownloadFunctionCode(fs, destination, source, data) ==
    IF source.kind \in {"unimplemented", "get fails"} THEN [fs |-> fs, err |-> TRUE]
    ELSE LET made == MkdirAll(fs, destination)
         IN  IF made.err THEN made
             ELSE IF source.kind \in {"archive", "archive unreachable"}
             THEN downloadFromGCS(made.fs, destination, source, data)
             ELSE IF source.kind = "repository"
             THEN WriteFile(made.fs, Join(destination, CloneInstructions), data)
             ELSE [fs |-> made.fs, err |-> TRUE]

\* the command Model.downloadFunctionCode returns, run for the function name
downloadFunctionCode(fs, name, source, data) ==
    LET base == MkdirAll(fs, Downloads)
        downloadPath == Join(Downloads, name)
    IN  IF base.err THEN base
        ELSE DownloadFunctionCode(base.fs, downloadPath, source, data)

\* the os.Stat test of Model.loadCodeFiles
NotDownloaded(fs, name) == Join(Downloads, name) \notin DOMAIN fs

\* ------------------------------------------------------------------ state
VARIABLES
    \* fields of Model
    functions, allFunctions, cursor, currentView, selectedFunc,
    inputMode, textInput, filterActive, activeFilter, loading, err,
    streamingLogs, streamCancel, realTimeLogs, logStreamErr, content, accountID,
    editMode, originalContent, textarea, width, height,
    \* the program around the Model
    pending,        \* bag of commands running and messages not yet handled
    leaked,         \* live stream contexts that no CancelFunc held reaches
    now,            \* the clock
    providerLogs,   \* timestamps of the entries the log store holds
    quit,           \* tea.Quit was returned
    userStopped,    \* history: the user's last streaming request was a stop
    \* inputs and output of the filter function on its own
    fReg, fText, fOut, fDone,
    \* one call of the provider's StreamFunctionLogs on its own
    cloudLogs,      \* timestamps of the entries in the function's log
    lastTimestamp,  \* the call's high-water mark
    pollStart,      \* history: the mark when the last poll began
    ctxDone,        \* the context of the StreamFunctionLogs call is cancelled
    logChan,        \* history: the timestamps put on the log channel
    streaming,      \* the position of the provider's goroutine ("off": none)
    \* the local disk under the working directory
    disk,           \* clean relative path -> IsDir or a file's data
    downloadedOK,   \* history: functions a download of which succeeded
    \* input and result of one run of extractZip or DownloadFunctionCode
    zArchive, zErr, zDone

navVars == <<currentView, selectedFunc, cursor>>
listVars == <<functions, allFunctions, filterActive, activeFilter, loading, err>>
inputVars == <<inputMode, textInput>>
streamVars == <<streamingLogs, streamCancel, realTimeLogs, logStreamErr>>
editVars == <<editMode, originalContent, textarea>>
envVars == <<leaked, now, providerLogs>>
pureVars == <<fReg, fText, fOut, fDone>>
layoutVars == <<width, height>>
pollVars == <<cloudLogs, lastTimestamp, pollStart, ctxDone, logChan, streaming>>
diskVars == <<disk, downloadedOK>>
zipVars == <<zArchive, zErr, zDone>>
modelVars == <<navVars, listVars, inputVars, streamVars, editVars, content, accountID>>
vars == <<modelVars, pending, envVars, quit, userStopped, pureVars, layoutVars,
          pollVars, diskVars, zipVars>>

\* ViewType.String()
ListView == "list"
DetailView == "detail"
LogsView == "logs"
CodeView == "code"
CodeDisplayView == "code-display"
MetricsView == "metrics"
Views == {ListView, DetailView, LogsView, CodeView, CodeDisplayView, MetricsView}

NormalMode == "normal"
FilterMode == "filter"
CommandMode == "command"

\* m.streamCancel: nil, or the CancelFunc of the context made last
NoCancel == "nil"
HasCancel == "cancel"

\* where a stream context stands: Current is the context m.streamCancel
\* cancels, Leaked is live with its CancelFunc dropped, Cancelled is done
Current == "current"
Leaked == "leaked"
Cancelled == "cancelled"
NoCtx == "none"
NoName == <<>>

\* what the viewport shows: which text, of which function, and for the
\* real-time view the joined lines
Shown(kind, fn) ==
    [kind |-> kind, fn |-> fn, lines |-> <<>>,
     view |-> FALSE, edited |-> FALSE, banners |-> 0]
ShownLines(lines) == [Shown("realtime", NoName) EXCEPT !.lines = lines]

\* viewport.View(): the visible window of the content, padded to the
\* viewport's height (the rendering of a rendering is itself)
Rendered(c) == [c EXCEPT !.view = TRUE]

\* textarea.Update on a typed character: the text differs from what it was
Typed(t) == [t EXCEPT !.edited = TRUE]

\* "Changes saved!" put above the text
WithBanner(c) == [c EXCEPT !.banners = @ + 1]

\* a line of realTimeLogs
Line(kind, fn, ts) == [kind |-> kind, fn |-> fn, ts |-> ts]

\* a command in flight or a message waiting for Update
Cmd(kind, fn) == [cmd |-> kind, fn |-> fn, ctx |-> NoCtx, at |-> 0]
ReadCmd(fn, ctx, at) == [cmd |-> "streamLogs", fn |-> fn, ctx |-> ctx, at |-> at]
\* the messages of a read; ctx remembers the context of the read that made the
\* message (the program's messages do not carry it)
EntryMsg(fn, ctx, ts) == [cmd |-> "newLogEntryMsg", fn |-> fn, ctx |-> ctx, at |-> ts]
ErrorMsg(fn, ctx) == [cmd |-> "logStreamErrorMsg", fn |-> fn, ctx |-> ctx, at |-> 0]

Issue(bag, cmds) == bag (+) SetToBag(cmds)
Take(bag, c) == bag (-) SetToBag({c})
InFlight(kind) == {c \in BagToSet(pending) : c.cmd = kind}

\* the fields of Model that NewModel sets and no startup message changes,
\* and the program around it at startup
Fresh ==
    /\ cursor = 0
    /\ currentView = ListView
    /\ selectedFunc = NoFunc
    /\ inputMode = NormalMode
    /\ textInput = <<>>
    /\ filterActive = FALSE
    /\ activeFilter = <<>>
    /\ err = FALSE
    /\ streamingLogs = FALSE
    /\ streamCancel = NoCancel
    /\ realTimeLogs = <<>>
    /\ logStreamErr = FALSE
    /\ content = Shown("empty", NoName)
    /\ editMode = FALSE
    /\ originalContent = Shown("empty", NoName)
    /\ textarea = Shown("empty", NoName)
    /\ leaked = 0
    /\ now = 0
    /\ providerLogs = {}
    /\ quit = FALSE
    /\ userStopped = FALSE
    /\ width = 0
    /\ height = 0

\* an archive: its entries in order, and whether zip.OpenReader rejects it
Archive(entries, corrupt) == [entries |-> entries, corrupt |-> corrupt]
NoArchive == Archive(<<>>, FALSE)

\* zDone before extractZip or DownloadFunctionCode has run on its own
NotRun == "not run"

\* nothing was downloaded yet and extractZip is not exercised on its own
NoDownload ==
    /\ cloudLogs = {}
    /\ lastTimestamp = 0
    /\ pollStart = 0
    /\ ctxDone = FALSE
    /\ logChan = <<>>
    /\ streaming = "off"
    /\ disk = NoFiles
    /\ downloadedOK = {}
    /\ zArchive = NoArchive
    /\ zErr = FALSE
    /\ zDone = NotRun

\* NewModel, and the commands Model.Init batches
NewModel ==
    /\ Fresh
    /\ functions = <<>>
    /\ allFunctions = <<>>
    /\ loading = TRUE
    /\ accountID = FALSE
    /\ pending = SetToBag({Cmd("fetchFunctions", NoName), Cmd("fetchAccountID", NoName)})

\* the program once both startup commands have returned: the account id is
\* known, the listing reg fills the table, no key was pressed yet
Loaded(reg) ==
    /\ Fresh
    /\ functions = reg
    /\ allFunctions = reg
    /\ loading = FALSE
    /\ accountID = TRUE
    /\ pending = EmptyBag

\* the program starts; the filter function is not exercised on its own
Init ==
    /\ NewModel
    /\ fReg = <<>>
    /\ fText = <<>>
    /\ fOut = <<>>
    /\ fDone = FALSE
    /\ NoDownload

\* ------------------------------------------------- contexts and the table
Min(S) == CHOOSE x \in S : \A y \in S : x <= y

\* the commands and messages in flight after the contexts standing at
\* `from` moved to `to`
Relabel(bag, from, to) ==
    LET move(e) == IF e.ctx = from THEN [e EXCEPT !.ctx = to] ELSE e
        copies(x) == IF x \in DOMAIN bag THEN bag[x] ELSE 0
    IN  [x \in {move(e) : e \in DOMAIN bag} |->
            IF x.ctx = to THEN copies(x) + copies([x EXCEPT !.ctx = from])
            ELSE copies(x)]

\* m.streamCancel() where the code calls it: the current context is done,
\* for every read that holds it
CancelCurrent(bag) == Relabel(bag, Current, Cancelled)

\* m.streamCancel = cancel without a call of the old one: the old context
\* stays live and nothing can cancel it any more
DropCurrent(bag) == Relabel(bag, Current, Leaked)

\* the stream contexts live now
LiveSessions == leaked + (IF streamCancel # NoCancel THEN 1 ELSE 0)

\* table.Model cursor after a move of d rows over n rows
MoveCursor(cur, d, n) ==
    LET hi == IF n = 0 THEN 0 ELSE n - 1
        to == cur + d
    IN  IF to < 0 THEN 0 ELSE IF to > hi THEN hi ELSE to

\* append with the buffer's cap (keep last 1000 entries)
AppendCapped(lines, l) ==
    LET all == Append(lines, l)
    IN  IF Len(all) > LogCap THEN Tail(all) ELSE all

\* ------------------------------------------------ Update: message handlers
\* case accountIDLoadedMsg
accountIDLoaded(ok, rest) ==
    /\ accountID' = IF ok THEN TRUE ELSE accountID
    /\ pending' = rest
    /\ UNCHANGED <<editVars, navVars, listVars, inputVars, streamVars, content, envVars, quit>>

\* a listing handler that stores the registry and keeps the displayed list
RegistryOnlyLoaded(ok, fns, rest) ==
    /\ loading' = FALSE
    /\ IF ~ok
       THEN /\ err' = TRUE
            /\ UNCHANGED allFunctions
       ELSE /\ allFunctions' = fns
            /\ UNCHANGED err
    /\ pending' = rest
    /\ UNCHANGED <<editVars, functions, filterActive, activeFilter, navVars, inputVars,
                   streamVars, content, accountID, envVars, quit>>

\* a listing handler that empties the lists when the listing failed
ListingClearedOnError(ok, fns, rest) ==
    /\ loading' = FALSE
    /\ allFunctions' = fns
    /\ functions' = fns
    /\ err' = IF ok THEN err ELSE TRUE
    /\ pending' = rest
    /\ UNCHANGED <<editVars, filterActive, activeFilter, navVars, inputVars, streamVars,
                   content, accountID, envVars, quit>>

\* Model.handleFunctionsLoaded
handleFunctionsLoaded(ok, fns, rest) ==
    /\ loading' = FALSE
    /\ IF ~ok
       THEN /\ err' = TRUE
            /\ UNCHANGED <<functions, allFunctions>>
       ELSE /\ allFunctions' = fns
            /\ functions' = fns
            /\ UNCHANGED err
    /\ pending' = rest
    /\ UNCHANGED <<editVars, filterActive, activeFilter, navVars, inputVars, streamVars,
                   content, accountID, envVars, quit>>

\* the cases that only set the viewport's content: functionLogsLoadedMsg,
\* functionMetricsLoadedMsg, functionCodeLoadedMsg, downloadingMsg,
\* functionCodeDownloadedMsg, loadingCodeFilesMsg, codeFilesLoadedMsg
SetContentOnly(shown, rest) ==
    /\ content' = shown
    /\ pending' = rest
    /\ UNCHANGED <<editVars, navVars, listVars, inputVars, streamVars, accountID, envVars, quit>>

\* a result that is handled only while a view other than the list is open
resultLoadedInView(kind, fn, ok, rest) ==
    /\ currentView # ListView
    /\ SetContentOnly(Shown(IF ok THEN kind ELSE kind \o " error", fn), rest)

\* functionLogsLoadedMsg ... codeFilesLoadedMsg: the result of a fetch of
\* `kind` for fn is put on the viewport, as text or as "Error: ..."
resultLoaded(kind, fn, ok, rest) ==
    SetContentOnly(Shown(IF ok THEN kind ELSE kind \o " error", fn), rest)

\* case codeFilesLoadedMsg: the files' text, or the error of loadCodeFiles
codeFilesLoaded(shown, fn, rest) == SetContentOnly(Shown(shown, fn), rest)

\* case editSavedMsg (the command always reports success)
editSaved(rest) ==
    /\ content' = WithBanner(Rendered(content))
    /\ content'.banners <= MaxBanners
    /\ pending' = rest
    /\ UNCHANGED <<editVars, navVars, listVars, inputVars, streamVars, accountID,
                   envVars, quit>>

\* case downloadingMsg, case loadingCodeFilesMsg
placeholderMsg(kind, fn, rest) == SetContentOnly(Shown(kind, fn), rest)

\* case logStreamStartedMsg
logStreamStarted(fn, rest) ==
    /\ streamingLogs' = TRUE
    /\ realTimeLogs' = <<Line("header", fn, 0)>>
    /\ logStreamErr' = FALSE
    /\ leaked' = IF streamCancel # NoCancel THEN leaked + 1 ELSE leaked
    /\ leaked' + 1 <= MaxCtx
    /\ streamCancel' = HasCancel
    /\ content' = ShownLines(realTimeLogs')
    /\ pending' = Issue(DropCurrent(rest), {ReadCmd(fn, Current, now)})
    /\ UNCHANGED <<editVars, navVars, listVars, inputVars, accountID, now, providerLogs, quit>>

\* case newLogEntryMsg
newLogEntry(ts, rest) ==
    IF streamingLogs
    THEN /\ realTimeLogs' = AppendCapped(realTimeLogs, Line("entry", NoName, ts))
         /\ content' = ShownLines(realTimeLogs')
         /\ streamCancel' = HasCancel
         /\ pending' = Issue(IF streamCancel # NoCancel THEN CancelCurrent(rest) ELSE rest,
                             {ReadCmd(selectedFunc.Name, Current, now)})
         /\ UNCHANGED <<editVars, streamingLogs, logStreamErr, navVars, listVars, inputVars,
                        accountID, envVars, quit>>
    ELSE /\ pending' = rest
         /\ UNCHANGED <<modelVars, envVars, quit>>

\* a stream-error handler that clears the buffer before the marker line
logStreamErrorClears(rest) ==
    IF streamingLogs
    THEN /\ logStreamErr' = TRUE
         /\ streamingLogs' = FALSE
         /\ pending' = IF streamCancel # NoCancel THEN CancelCurrent(rest) ELSE rest
         /\ streamCancel' = NoCancel
         /\ realTimeLogs' = <<Line("error", NoName, 0)>>
         /\ content' = ShownLines(realTimeLogs')
         /\ UNCHANGED <<editVars, navVars, listVars, inputVars, accountID, envVars, quit>>
    ELSE /\ pending' = rest
         /\ UNCHANGED <<modelVars, envVars, quit>>

\* case logStreamErrorMsg
logStreamError(rest) ==
    IF streamingLogs
    THEN /\ logStreamErr' = TRUE
         /\ streamingLogs' = FALSE
         /\ pending' = IF streamCancel # NoCancel THEN CancelCurrent(rest) ELSE rest
         /\ streamCancel' = NoCancel
         /\ realTimeLogs' = Append(realTimeLogs, Line("error", NoName, 0))
         /\ content' = ShownLines(realTimeLogs')
         /\ UNCHANGED <<editVars, navVars, listVars, inputVars, accountID, envVars, quit>>
    ELSE /\ pending' = rest
         /\ UNCHANGED <<modelVars, envVars, quit>>

\* a resize that also empties the viewport
handleWindowSizeClearsContent(w, h) ==
    /\ width' = w
    /\ height' = h
    /\ content' = Shown("empty", NoName)
    /\ UNCHANGED <<navVars, listVars, inputVars, streamVars, editVars,
                   accountID, pending, envVars, quit>>

\* Model.handleWindowSize: the dimensions are stored; the table's height and
\* columns and the sizes of the viewport and the textarea follow from them
handleWindowSize(w, h) ==
    /\ width' = w
    /\ height' = h
    /\ UNCHANGED <<modelVars, pending, envVars, quit>>

\* the height handleWindowSize gives the table
TableHeight(h) == IF h - 22 < 5 THEN 5 ELSE h - 22

\* ------------------------------------------- handleKeyPress: Normal mode
Selectable == Len(functions) > 0 /\ cursor < Len(functions)
UnderCursor == functions[cursor + 1]

Nothing == UNCHANGED <<modelVars, pending, envVars, quit>>

\* case "ctrl+c"
keyCtrlC ==
    /\ quit' = TRUE
    /\ UNCHANGED <<modelVars, pending, envVars>>

\* 'q' quitting in whatever view
keyQAnywhere ==
    quit' = TRUE /\ UNCHANGED <<modelVars, pending, envVars>>

\* case "q"
keyQ ==
    IF currentView = ListView
    THEN quit' = TRUE /\ UNCHANGED <<modelVars, pending, envVars>>
    ELSE Nothing

\* case "\\"
keyBackslash ==
    IF currentView = ListView
    THEN /\ inputMode' = FilterMode
         /\ textInput' = <<>>
         /\ UNCHANGED <<editVars, navVars, listVars, streamVars, content, accountID,
                        pending, envVars, quit>>
    ELSE Nothing

\* case ":"
keyColon ==
    /\ inputMode' = CommandMode
    /\ textInput' = <<":">>
    /\ UNCHANGED <<editVars, navVars, listVars, streamVars, content, accountID,
                   pending, envVars, quit>>

\* case "enter"
keyEnter ==
    IF currentView = ListView /\ Selectable
    THEN /\ selectedFunc' = UnderCursor
         /\ currentView' = DetailView
         /\ content' = Shown("detail", UnderCursor.Name)
         /\ UNCHANGED <<editVars, cursor, listVars, inputVars, streamVars, accountID,
                        pending, envVars, quit>>
    ELSE Nothing

\* an Esc that leaves every view, CodeFiles too, for the list
keyEscToList ==
    LET stop == currentView = LogsView /\ streamingLogs
    IN  /\ pending' = IF stop /\ streamCancel # NoCancel THEN CancelCurrent(pending)
                      ELSE pending
        /\ streamCancel' = IF stop THEN NoCancel ELSE streamCancel
        /\ streamingLogs' = IF stop THEN FALSE ELSE streamingLogs
        /\ IF currentView # ListView
           THEN /\ currentView' = ListView
                /\ UNCHANGED <<filterActive, activeFilter, functions>>
           ELSE IF filterActive
           THEN /\ filterActive' = FALSE
                /\ activeFilter' = <<>>
                /\ functions' = allFunctions
                /\ UNCHANGED currentView
           ELSE UNCHANGED <<currentView, filterActive, activeFilter, functions>>
        /\ UNCHANGED <<editVars, selectedFunc, cursor, allFunctions, loading, err, inputVars,
                       realTimeLogs, logStreamErr, content, accountID, envVars, quit>>

\* an Esc that does not leave the Code view
keyEscKeepsCode ==
    LET stop == currentView = LogsView /\ streamingLogs
    IN  /\ pending' = IF stop /\ streamCancel # NoCancel THEN CancelCurrent(pending)
                      ELSE pending
        /\ streamCancel' = IF stop THEN NoCancel ELSE streamCancel
        /\ streamingLogs' = IF stop THEN FALSE ELSE streamingLogs
        /\ IF currentView = CodeDisplayView
           THEN /\ currentView' = CodeView
                /\ UNCHANGED <<filterActive, activeFilter, functions>>
           ELSE IF currentView \notin {ListView, CodeView}
           THEN /\ currentView' = ListView
                /\ UNCHANGED <<filterActive, activeFilter, functions>>
           ELSE IF currentView = ListView /\ filterActive
           THEN /\ filterActive' = FALSE
                /\ activeFilter' = <<>>
                /\ functions' = allFunctions
                /\ UNCHANGED currentView
           ELSE UNCHANGED <<currentView, filterActive, activeFilter, functions>>
        /\ UNCHANGED <<editVars, selectedFunc, cursor, allFunctions, loading, err, inputVars,
                       realTimeLogs, logStreamErr, content, accountID, envVars, quit>>

\* case "esc"
keyEsc ==
    LET stop == currentView = LogsView /\ streamingLogs
    IN  /\ pending' = IF stop /\ streamCancel # NoCancel THEN CancelCurrent(pending)
                      ELSE pending
        /\ streamCancel' = IF stop THEN NoCancel ELSE streamCancel
        /\ streamingLogs' = IF stop THEN FALSE ELSE streamingLogs
        /\ IF currentView = CodeDisplayView
           THEN /\ currentView' = CodeView
                /\ UNCHANGED <<filterActive, activeFilter, functions>>
           ELSE IF currentView # ListView
           THEN /\ currentView' = ListView
                /\ UNCHANGED <<filterActive, activeFilter, functions>>
           ELSE IF filterActive
           THEN /\ filterActive' = FALSE
                /\ activeFilter' = <<>>
                /\ functions' = allFunctions
                /\ UNCHANGED currentView
           ELSE UNCHANGED <<currentView, filterActive, activeFilter, functions>>
        /\ UNCHANGED <<editVars, selectedFunc, cursor, allFunctions, loading, err, inputVars,
                       realTimeLogs, logStreamErr, content, accountID, envVars, quit>>

\* an 'l' that opens the Logs view from the list without selecting
keyLKeepsSelection ==
    IF currentView = ListView /\ Len(functions) > 0
    THEN IF cursor < Len(functions)
         THEN /\ currentView' = LogsView
              /\ content' = Shown("Loading logs...", NoName)
              /\ pending' = Issue(pending, {Cmd("fetchFunctionLogs", UnderCursor.Name)})
              /\ UNCHANGED <<editVars, selectedFunc, cursor, listVars, inputVars, streamVars,
                             accountID, envVars, quit>>
         ELSE Nothing
    ELSE IF currentView = LogsView
    THEN LET stop == streamingLogs /\ streamCancel # NoCancel
         IN  /\ streamingLogs' = IF stop THEN FALSE ELSE streamingLogs
             /\ streamCancel' = IF stop THEN NoCancel ELSE streamCancel
             /\ content' = Shown("Loading logs...", NoName)
             /\ pending' = Issue(IF stop THEN CancelCurrent(pending) ELSE pending,
                                 {Cmd("fetchFunctionLogs", selectedFunc.Name)})
             /\ UNCHANGED <<editVars, navVars, listVars, inputVars, realTimeLogs, logStreamErr,
                            accountID, envVars, quit>>
    ELSE Nothing

\* case "l"
keyL ==
    IF currentView = ListView /\ Len(functions) > 0
    THEN IF cursor < Len(functions)
         THEN /\ selectedFunc' = UnderCursor
              /\ currentView' = LogsView
              /\ content' = Shown("Loading logs...", NoName)
              /\ pending' = Issue(pending, {Cmd("fetchFunctionLogs", UnderCursor.Name)})
              /\ UNCHANGED <<editVars, cursor, listVars, inputVars, streamVars, accountID,
                             envVars, quit>>
         ELSE Nothing
    ELSE IF currentView = LogsView /\ selectedFunc # NoFunc
    THEN LET stop == streamingLogs /\ streamCancel # NoCancel
         IN  /\ streamingLogs' = IF stop THEN FALSE ELSE streamingLogs
             /\ streamCancel' = IF stop THEN NoCancel ELSE streamCancel
             /\ content' = Shown("Loading logs...", NoName)
             /\ pending' = Issue(IF stop THEN CancelCurrent(pending) ELSE pending,
                                 {Cmd("fetchFunctionLogs", selectedFunc.Name)})
             /\ UNCHANGED <<editVars, navVars, listVars, inputVars, realTimeLogs, logStreamErr,
                            accountID, envVars, quit>>
    ELSE Nothing

\* case "s"
keyS ==
    IF currentView = LogsView /\ selectedFunc # NoFunc
    THEN IF streamingLogs
         THEN /\ pending' = IF streamCancel # NoCancel THEN CancelCurrent(pending)
                              ELSE pending
              /\ streamCancel' = NoCancel
              /\ streamingLogs' = FALSE
              /\ realTimeLogs' = Append(realTimeLogs, Line("stopped", NoName, 0))
              /\ content' = ShownLines(realTimeLogs')
              /\ UNCHANGED <<editVars, logStreamErr, navVars, listVars, inputVars, accountID,
                             envVars, quit>>
         ELSE /\ pending' = Issue(pending, {Cmd("startLogStreaming", selectedFunc.Name)})
              /\ UNCHANGED <<modelVars, envVars, quit>>
    ELSE Nothing

\* an opening of a view that fetches for the function selected before
openAndFetchPrevious(view, loadingText, fetch) ==
    /\ selectedFunc' = UnderCursor
    /\ currentView' = view
    /\ content' = Shown(loadingText, NoName)
    /\ pending' = Issue(pending, {Cmd(fetch, selectedFunc.Name)})
    /\ UNCHANGED <<editVars, cursor, listVars, inputVars, streamVars, accountID, envVars, quit>>

\* case "c", case "m" from the list: open the view and fetch for the function
\* under the cursor
openAndFetch(view, loadingText, fetch) ==
    /\ selectedFunc' = UnderCursor
    /\ currentView' = view
    /\ content' = Shown(loadingText, NoName)
    /\ pending' = Issue(pending, {Cmd(fetch, UnderCursor.Name)})
    /\ UNCHANGED <<editVars, cursor, listVars, inputVars, streamVars, accountID, envVars, quit>>

\* case "c"
keyC ==
    IF currentView = ListView /\ Selectable
    THEN openAndFetch(CodeView, "Loading code...", "fetchFunctionCode")
    ELSE Nothing

\* case "m"
keyM ==
    IF currentView = ListView /\ Len(functions) > 0
    THEN IF cursor < Len(functions)
         THEN openAndFetch(MetricsView, "Loading metrics...", "fetchFunctionMetrics")
         ELSE Nothing
    ELSE IF currentView = MetricsView /\ selectedFunc # NoFunc
    THEN /\ content' = Shown("Refreshing metrics...", NoName)
         /\ pending' = Issue(pending, {Cmd("fetchFunctionMetrics", selectedFunc.Name)})
         /\ UNCHANGED <<editVars, navVars, listVars, inputVars, streamVars, accountID,
                        envVars, quit>>
    ELSE Nothing

\* a 'w' that selects the function it downloads
keyWSelects ==
    IF currentView = ListView /\ Selectable
    THEN /\ content' = Shown("Downloading code for", UnderCursor.Name)
         /\ selectedFunc' = UnderCursor
         /\ pending' = Issue(pending, {Cmd("downloadingMsg", UnderCursor.Name),
                                       Cmd("downloadFunctionCode", UnderCursor.Name)})
         /\ UNCHANGED <<editVars, currentView, cursor, listVars, inputVars, streamVars,
                        accountID, envVars, quit>>
    ELSE Nothing

\* case "w"
keyW ==
    IF currentView = ListView /\ Selectable
    THEN /\ content' = Shown("Downloading code for", UnderCursor.Name)
         /\ pending' = Issue(pending, {Cmd("downloadingMsg", UnderCursor.Name),
                                       Cmd("downloadFunctionCode", UnderCursor.Name)})
         /\ UNCHANGED <<editVars, navVars, listVars, inputVars, streamVars, accountID,
                        envVars, quit>>
    ELSE Nothing

\* case "v"
keyV ==
    IF currentView = CodeView /\ selectedFunc # NoFunc
    THEN /\ currentView' = CodeDisplayView
         /\ content' = Shown("Loading code files for", selectedFunc.Name)
         /\ pending' = Issue(pending, {Cmd("loadingCodeFilesMsg", selectedFunc.Name),
                                       Cmd("loadCodeFiles", selectedFunc.Name)})
         /\ UNCHANGED <<editVars, selectedFunc, cursor, listVars, inputVars, streamVars,
                        accountID, envVars, quit>>
    ELSE Nothing

\* case "r"
keyR ==
    IF currentView = ListView
    THEN /\ loading' = TRUE
         /\ pending' = Issue(pending, {Cmd("fetchFunctions", NoName)})
         /\ UNCHANGED <<editVars, functions, allFunctions, filterActive, activeFilter, err,
                        navVars, inputVars, streamVars, content, accountID,
                        envVars, quit>>
    ELSE Nothing

\* case "e"
keyE ==
    IF currentView = CodeView /\ selectedFunc # NoFunc
    THEN IF ~editMode
         THEN /\ editMode' = TRUE
              /\ originalContent' = Rendered(content)
              /\ textarea' = Rendered(content)
              /\ UNCHANGED <<navVars, listVars, inputVars, streamVars, content,
                             accountID, pending, envVars, quit>>
         ELSE /\ editMode' = FALSE
              /\ content' = originalContent
              /\ UNCHANGED <<originalContent, textarea, navVars, listVars, inputVars,
                             streamVars, accountID, pending, envVars, quit>>
    ELSE Nothing

\* case "ctrl+s"
keyCtrlS ==
    IF currentView = CodeView /\ editMode /\ selectedFunc # NoFunc
    THEN /\ content' = textarea
         /\ editMode' = FALSE
         /\ pending' = Issue(pending, {Cmd("editSavedMsg", NoName)})
         /\ UNCHANGED <<originalContent, textarea, navVars, listVars, inputVars,
                        streamVars, accountID, envVars, quit>>
    ELSE Nothing

\* a character the switch does not name ("x"): it goes to the table in the
\* list, to the textarea in the Code view in edit mode, else to the viewport;
\* only the textarea takes it as text
keyOther ==
    IF currentView # ListView /\ currentView = CodeView /\ editMode
    THEN /\ textarea' = Typed(textarea)
         /\ UNCHANGED <<editMode, originalContent, navVars, listVars, inputVars,
                        streamVars, content, accountID, pending, envVars, quit>>
    ELSE Nothing

\* keys the switch does not name: "up" and "down" go to the table in the list
\* (to the viewport elsewhere, which scrolls and changes no field modelled)
keyMove(d) ==
    IF currentView = ListView
    THEN /\ cursor' = MoveCursor(cursor, d, Len(functions))
         /\ UNCHANGED <<editVars, currentView, selectedFunc, listVars, inputVars, streamVars,
                        content, accountID, pending, envVars, quit>>
    ELSE Nothing

\* ------------------------------------------------ handleInputMode and keys
\* executeCommand without its ":r", ":refresh" case
executeQuitOnly(command) ==
    IF command \in {<<":", "q">>, <<":", "q", "u", "i", "t">>}
    THEN quit' = TRUE /\ UNCHANGED <<loading, pending>>
    ELSE UNCHANGED <<loading, pending, quit>>

\* Model.executeCommand
executeCommand(command) ==
    IF command \in {<<":", "q">>, <<":", "q", "u", "i", "t">>}
    THEN quit' = TRUE /\ UNCHANGED <<loading, pending>>
    ELSE IF command \in {<<":", "r">>, <<":", "r", "e", "f", "r", "e", "s", "h">>}
    THEN /\ loading' = TRUE
         /\ pending' = Issue(pending, {Cmd("fetchFunctions", NoName)})
         /\ UNCHANGED quit
    ELSE UNCHANGED <<loading, pending, quit>>

\* the runes of a key message: one for a typed character, several for text
\* pasted in one message
Runes(k) ==
    IF k = "uit" THEN <<"u", "i", "t">>
    ELSE IF k = "efresh" THEN <<"e", "f", "r", "e", "s", "h">>
    ELSE <<k>>

\* textinput.Model.Update: the runes of the message are appended, backspace
\* deletes the last character, other keys leave the value
TextInputUpdate(value, k) ==
    IF k = "backspace" THEN (IF value = <<>> THEN value ELSE SubSeq(value, 1, Len(value) - 1))
    ELSE IF k \in {"up", "down", "ctrl+s"} THEN value
    ELSE value \o Runes(k)

\* Model.handleInputMode
handleInputMode(k) ==
    IF k = "esc"
    THEN /\ inputMode' = NormalMode
         /\ IF inputMode = FilterMode
            THEN /\ filterActive' = FALSE
                 /\ activeFilter' = <<>>
                 /\ functions' = allFunctions
            ELSE UNCHANGED <<filterActive, activeFilter, functions>>
         /\ UNCHANGED <<editVars, textInput, allFunctions, loading, err, navVars, streamVars,
                        content, accountID, pending, envVars, quit>>
    ELSE IF k = "enter"
    THEN IF inputMode = FilterMode
         THEN LET filterText == TrimSpace(textInput)
              IN  /\ filterActive' = (filterText # <<>>)
                  /\ activeFilter' = filterText
                  /\ inputMode' = NormalMode
                  /\ UNCHANGED <<editVars, textInput, functions, allFunctions, loading, err,
                                 navVars, streamVars, content, accountID, pending,
                                 envVars, quit>>
         ELSE /\ inputMode' = NormalMode
              /\ executeCommand(TrimSpace(textInput))
              /\ UNCHANGED <<editVars, textInput, functions, allFunctions, filterActive,
                             activeFilter, err, navVars, streamVars, content,
                             accountID, envVars>>
    ELSE IF k = "ctrl+c"
    THEN quit' = TRUE /\ UNCHANGED <<modelVars, pending, envVars>>
    ELSE /\ textInput' = TextInputUpdate(textInput, k)
         /\ \/ Len(textInput') <= (IF inputMode = CommandMode THEN MaxCommand ELSE MaxInput)
            \/ Len(Runes(k)) > 1 /\ Len(textInput) < MaxCommand
         /\ functions' = IF inputMode = FilterMode
                         THEN filterFunctions(allFunctions, textInput')
                         ELSE functions
         /\ UNCHANGED <<editVars, inputMode, allFunctions, filterActive, activeFilter, loading,
                        err, navVars, streamVars, content, accountID, pending,
                        envVars, quit>>

\* a key handler that hands the key to the text input in Filter mode only
handleKeyPressFilterOnly(k) ==
    IF inputMode = FilterMode THEN handleInputMode(k)
    ELSE CASE k = "ctrl+c" -> keyCtrlC
           [] k = "q" -> keyQ
           [] k = "\\" -> keyBackslash
           [] k = ":" -> keyColon
           [] k = "enter" -> keyEnter
           [] k = "esc" -> keyEsc
           [] k = "l" -> keyL
           [] k = "s" -> keyS
           [] k = "c" -> keyC
           [] k = "m" -> keyM
           [] k = "w" -> keyW
           [] k = "v" -> keyV
           [] k = "e" -> keyE
           [] k = "ctrl+s" -> keyCtrlS
           [] k = "r" -> keyR
           [] k = "x" -> keyOther
           [] k = "up" -> keyMove(-1)
           [] k = "down" -> keyMove(1)
           [] OTHER -> Nothing

\* Model.handleKeyPress
handleKeyPress(k) ==
    IF inputMode \in {FilterMode, CommandMode} THEN handleInputMode(k)
    ELSE CASE k = "ctrl+c" -> keyCtrlC
           [] k = "q" -> keyQ
           [] k = "\\" -> keyBackslash
           [] k = ":" -> keyColon
           [] k = "enter" -> keyEnter
           [] k = "esc" -> keyEsc
           [] k = "l" -> keyL
           [] k = "s" -> keyS
           [] k = "c" -> keyC
           [] k = "m" -> keyM
           [] k = "w" -> keyW
           [] k = "v" -> keyV
           [] k = "e" -> keyE
           [] k = "ctrl+s" -> keyCtrlS
           [] k = "r" -> keyR
           [] k = "x" -> keyOther
           [] k = "up" -> keyMove(-1)
           [] k = "down" -> keyMove(1)
           [] OTHER -> Nothing

\* -------------------------------------------------------------- the program
\* the user's last streaming request once key k is handled: a stop when the
\* key stops a running stream ('s' while streaming, 'l' refresh in Logs, Esc
\* out of Logs), a start when 's' issues startLogStreaming
StopAfter(k) ==
    IF inputMode # NormalMode THEN userStopped
    ELSE IF k = "s" /\ currentView = LogsView /\ selectedFunc # NoFunc
    THEN streamingLogs
    ELSE IF k = "esc" /\ currentView = LogsView /\ streamingLogs
    THEN TRUE
    ELSE IF /\ k = "l" /\ currentView = LogsView /\ selectedFunc # NoFunc
            /\ streamingLogs /\ streamCancel # NoCancel
    THEN TRUE
    ELSE userStopped

\* a key reaches Update while the program runs; the user leaves at most
\* MaxInFlight commands running
KeyMsg(k) ==
    /\ ~quit
    /\ handleKeyPress(k)
    /\ BagCardinality(pending') <= MaxInFlight
    /\ userStopped' = StopAfter(k)
    /\ UNCHANGED <<pureVars, layoutVars, pollVars, diskVars, zipVars>>

\* fetchAccountID returns and Update handles its message
AccountIDLoaded ==
    /\ ~quit
    /\ \E c \in InFlight("fetchAccountID"), ok \in BOOLEAN :
           accountIDLoaded(ok, Take(pending, c))
    /\ UNCHANGED <<userStopped, pureVars, layoutVars, pollVars, diskVars, zipVars>>

\* fetchFunctions returns (one of the listings regs, or an error) and Update
\* handles it
FunctionsLoaded(regs) ==
    /\ ~quit
    /\ \E c \in InFlight("fetchFunctions") :
           \/ \E fns \in regs : handleFunctionsLoaded(TRUE, fns, Take(pending, c))
           \/ handleFunctionsLoaded(FALSE, <<>>, Take(pending, c))
    /\ UNCHANGED <<userStopped, pureVars, layoutVars, pollVars, diskVars, zipVars>>

\* the text a fetch command's result puts on the viewport
ResultKind(cmd) ==
    CASE cmd = "fetchFunctionLogs" -> "logs"
      [] cmd = "fetchFunctionMetrics" -> "metrics"
      [] cmd = "fetchFunctionCode" -> "code"
      [] cmd = "downloadFunctionCode" -> "download"
      [] cmd = "loadCodeFiles" -> "code files"

FetchCmds == {"fetchFunctionLogs", "fetchFunctionMetrics", "fetchFunctionCode",
              "downloadFunctionCode", "loadCodeFiles"}

\* the commands that work on the local disk
DiskCmds == {"downloadFunctionCode", "loadCodeFiles"}

\* a fetch from the provider for a function returns (its text or an error)
\* and Update handles it
ResultLoaded ==
    /\ ~quit
    /\ \E c \in BagToSet(pending), ok \in BOOLEAN :
           /\ c.cmd \in FetchCmds \ DiskCmds
           /\ resultLoaded(ResultKind(c.cmd), c.fn, ok, Take(pending, c))
    /\ UNCHANGED <<userStopped, pureVars, layoutVars, pollVars, diskVars, zipVars>>

\* the download command runs for a function whose source is one of sources,
\* and Update handles functionCodeDownloadedMsg
DownloadDone(sources) ==
    /\ ~quit
    /\ \E c \in InFlight("downloadFunctionCode"), source \in sources :
           LET r == downloadFunctionCode(disk, c.fn, source, "new")
           IN  /\ disk' = r.fs
               /\ downloadedOK' = IF r.err THEN downloadedOK
                                  ELSE downloadedOK \cup {c.fn}
               /\ resultLoaded("download", c.fn, ~r.err, Take(pending, c))
    /\ UNCHANGED <<userStopped, pureVars, layoutVars, pollVars, zipVars>>

\* the texts codeFilesLoadedMsg puts on the viewport
NotDownloadedYet == "code not downloaded yet"
CodeFilesTexts == {NotDownloadedYet, "code files", "code files error"}

\* Model.loadCodeFiles runs and Update handles codeFilesLoadedMsg
CodeFilesLoaded ==
    /\ ~quit
    /\ \E c \in InFlight("loadCodeFiles") :
           IF NotDownloaded(disk, c.fn)
           THEN codeFilesLoaded(NotDownloadedYet, c.fn, Take(pending, c))
           ELSE \E shown \in CodeFilesTexts \ {NotDownloadedYet} :
                    codeFilesLoaded(shown, c.fn, Take(pending, c))
    /\ UNCHANGED <<userStopped, pureVars, layoutVars, pollVars, diskVars, zipVars>>

\* editSavedMsg reaches Update
EditSaved ==
    /\ ~quit
    /\ \E c \in InFlight("editSavedMsg") : editSaved(Take(pending, c))
    /\ UNCHANGED <<userStopped, pureVars, layoutVars, pollVars, diskVars, zipVars>>

\* downloadingMsg or loadingCodeFilesMsg reaches Update
PlaceholderShown ==
    /\ ~quit
    /\ \E c \in InFlight("downloadingMsg") \cup InFlight("loadingCodeFilesMsg") :
           placeholderMsg(c.cmd, c.fn, Take(pending, c))
    /\ UNCHANGED <<userStopped, pureVars, layoutVars, pollVars, diskVars, zipVars>>

\* logStreamStartedMsg reaches Update
StreamStarted ==
    /\ ~quit
    /\ \E c \in InFlight("startLogStreaming") : logStreamStarted(c.fn, Take(pending, c))
    /\ UNCHANGED <<userStopped, pureVars, layoutVars, pollVars, diskVars, zipVars>>

\* entries of the store a stream started at `at` emits: newer than its
\* first high-water mark
Newer(at) == {t \in providerLogs : t + Lookback > at}

\* Model.streamLogs returns: the oldest entry the provider sends, or an error
\* once the context is cancelled or the provider fails
ReadReturns ==
    /\ ~quit
    /\ \E c \in InFlight("streamLogs") :
           \/ /\ c.ctx \in {Current, Leaked}
              /\ Newer(c.at) # {}
              /\ (Len(realTimeLogs) < MaxLines \/ Len(realTimeLogs) >= LogCap)
              /\ pending' = Issue(Take(pending, c), {EntryMsg(c.fn, c.ctx, Min(Newer(c.at)))})
           \/ pending' = Issue(Take(pending, c), {ErrorMsg(c.fn, c.ctx)})
    /\ UNCHANGED <<modelVars, envVars, quit, userStopped, pureVars, layoutVars, pollVars, diskVars, zipVars>>

\* newLogEntryMsg reaches Update
LogEntryReceived ==
    /\ ~quit
    /\ \E c \in InFlight("newLogEntryMsg") : newLogEntry(c.at, Take(pending, c))
    /\ UNCHANGED <<userStopped, pureVars, layoutVars, pollVars, diskVars, zipVars>>

\* logStreamErrorMsg reaches Update
StreamErrorReceived ==
    /\ ~quit
    /\ \E c \in InFlight("logStreamErrorMsg") : logStreamError(Take(pending, c))
    /\ UNCHANGED <<userStopped, pureVars, layoutVars, pollVars, diskVars, zipVars>>

\* a minute passes, and the function may have written a log entry in it
\* (stamped with the time it ends at)
Tick ==
    /\ ~quit
    /\ now < MaxTime
    /\ now' = now + 1
    /\ \/ providerLogs' = providerLogs \cup {now'}
       \/ providerLogs' = providerLogs
    /\ UNCHANGED <<modelVars, pending, leaked, quit, userStopped, pureVars, layoutVars, pollVars, diskVars, zipVars>>

\* the command or message c in flight completes: a command returns and Update
\* handles its message (a read of the stream returns and its message joins
\* the messages waiting for Update), with the listing <<FnA>> and a provider
\* whose download is not implemented
Completes(c) ==
    /\ ~quit
    /\ c \in BagToSet(pending)
    /\ LET rest == Take(pending, c)
       IN  CASE c.cmd = "fetchAccountID" ->
                    /\ \E ok \in BOOLEAN : accountIDLoaded(ok, rest)
                    /\ UNCHANGED diskVars
             [] c.cmd = "fetchFunctions" ->
                    /\ \/ handleFunctionsLoaded(TRUE, <<FnA>>, rest)
                       \/ handleFunctionsLoaded(FALSE, <<>>, rest)
                    /\ UNCHANGED diskVars
             [] c.cmd \in FetchCmds \ DiskCmds ->
                    /\ \E ok \in BOOLEAN : resultLoaded(ResultKind(c.cmd), c.fn, ok, rest)
                    /\ UNCHANGED diskVars
             [] c.cmd = "downloadFunctionCode" ->
                    LET r == downloadFunctionCode(disk, c.fn,
                                                  Source("unimplemented", NoArchive), "new")
                    IN  /\ disk' = r.fs
                        /\ downloadedOK' = IF r.err THEN downloadedOK
                                           ELSE downloadedOK \cup {c.fn}
                        /\ resultLoaded("download", c.fn, ~r.err, rest)
             [] c.cmd = "loadCodeFiles" ->
                    /\ IF NotDownloaded(disk, c.fn)
                       THEN codeFilesLoaded(NotDownloadedYet, c.fn, rest)
                       ELSE \E shown \in CodeFilesTexts \ {NotDownloadedYet} :
                                codeFilesLoaded(shown, c.fn, rest)
                    /\ UNCHANGED diskVars
             [] c.cmd \in {"downloadingMsg", "loadingCodeFilesMsg"} ->
                    placeholderMsg(c.cmd, c.fn, rest) /\ UNCHANGED diskVars
             [] c.cmd = "startLogStreaming" ->
                    logStreamStarted(c.fn, rest) /\ UNCHANGED diskVars
             [] c.cmd = "streamLogs" ->
                    /\ \/ /\ c.ctx \in {Current, Leaked}
                          /\ Newer(c.at) # {}
                          /\ (Len(realTimeLogs) < MaxLines \/ Len(realTimeLogs) >= LogCap)
                          /\ pending' = Issue(rest, {EntryMsg(c.fn, c.ctx, Min(Newer(c.at)))})
                       \/ pending' = Issue(rest, {ErrorMsg(c.fn, c.ctx)})
                    /\ UNCHANGED <<modelVars, envVars, quit, diskVars>>
             [] c.cmd = "newLogEntryMsg" ->
                    newLogEntry(c.at, rest) /\ UNCHANGED diskVars
             [] c.cmd = "logStreamErrorMsg" ->
                    logStreamError(rest) /\ UNCHANGED diskVars
             [] c.cmd = "editSavedMsg" ->
                    editSaved(rest) /\ UNCHANGED diskVars
    /\ UNCHANGED <<userStopped, pureVars, layoutVars, pollVars, zipVars>>

\* the user presses one of the keys normalKeys in Normal mode, one of
\* inputKeys while the text input is open
UserKey(normalKeys, inputKeys) ==
    \E k \in normalKeys \cup inputKeys :
        /\ (inputMode = NormalMode) => k \in normalKeys
        /\ (inputMode # NormalMode) => k \in inputKeys
        /\ KeyMsg(k)

\* ---- the log stream: the Logs view, its keys and the stream's events
\* streaming starts from the list filled with the listing <<FnA>>
InitStream ==
    /\ Loaded(<<FnA>>)
    /\ fReg = <<>>
    /\ fText = <<>>
    /\ fOut = <<>>
    /\ fDone = FALSE
    /\ NoDownload

StreamKeys == UserKey({"l", "s", "esc"}, {})

NextStream ==
    \/ StreamKeys
    \/ ResultLoaded
    \/ StreamStarted
    \/ ReadReturns
    \/ LogEntryReceived
    \/ StreamErrorReceived
    \/ Tick

SpecStream == InitStream /\ [][NextStream]_vars

\* ---- the views of one function and the fetches that fill them
FetchKeys == UserKey({"enter", "esc", "l", "c", "m", "w", "v", "r", "up", "down"}, {})
FetchListing == FunctionsLoaded({<<FnA>>, <<FnA, FnB>>})

\* the AWS provider's download is not implemented
FetchDownload == DownloadDone({Source("unimplemented", NoArchive)})

NextFetch ==
    \/ FetchKeys
    \/ AccountIDLoaded
    \/ FetchListing
    \/ ResultLoaded
    \/ FetchDownload
    \/ CodeFilesLoaded
    \/ PlaceholderShown

SpecFetch == Init /\ [][NextFetch]_vars

\* ---- the text input: filter entry and command entry over the list
InputModeKeys ==
    UserKey({"\\", ":", "esc", "r"},
            {"enter", "esc", "up", "a", " ", "r", "backspace"})
InputListing == FunctionsLoaded(Registries)

NextInput ==
    \/ InputModeKeys
    \/ AccountIDLoaded
    \/ InputListing

SpecInput == Init /\ [][NextInput]_vars

\* ---- Model.filterFunctions as a function of registry and filter text
FilterAlphabet == {"a", "A", "r", " "}

RECURSIVE SeqsUpTo(_, _)
\* the sequences over S of length at most n
SeqsUpTo(S, n) ==
    IF n = 0 THEN {<<>>}
    ELSE LET shorter == SeqsUpTo(S, n - 1)
         IN  shorter \cup {Append(q, x) : q \in shorter, x \in S}

InitFilter ==
    /\ NewModel
    /\ fReg \in SeqsUpTo({FnA, FnB}, MaxReg)
    /\ fText \in SeqsUpTo(FilterAlphabet, MaxFilterLen)
    /\ fOut = <<>>
    /\ fDone = FALSE
    /\ NoDownload

\* filterFunctions runs on the registry and text drawn
ApplyFilter ==
    /\ ~fDone
    /\ fOut' = filterFunctions(fReg, fText)
    /\ fDone' = TRUE
    /\ UNCHANGED <<modelVars, pending, envVars, quit, userStopped, fReg, fText,
                   layoutVars, pollVars, diskVars, zipVars>>

NextFilter == ApplyFilter

SpecFilter == InitFilter /\ [][NextFilter]_vars

\* ---- download and code files of one function with the GCP provider
GoodArchive == Archive(<<Entry(<<"x">>, FALSE)>>, FALSE)
BadArchive == Archive(<<Entry(<<"x">>, FALSE), Entry(<<".", ".", "/", "x">>, FALSE)>>, FALSE)

\* what Functions.Get can answer for a function
GcpSources ==
    {Source(k, NoArchive) : k \in {"get fails", "upload url", "none", "repository",
                                   "archive unreachable"}}
    \cup {Source("archive", GoodArchive), Source("archive", BadArchive)}

InitDownload ==
    /\ Loaded(<<FnA>>)
    /\ fReg = <<>>
    /\ fText = <<>>
    /\ fOut = <<>>
    /\ fDone = FALSE
    /\ NoDownload

DownloadKeys == UserKey({"w", "c", "v", "esc"}, {})
GcpDownload == DownloadDone(GcpSources)

NextDownload ==
    \/ DownloadKeys
    \/ ResultLoaded
    \/ GcpDownload
    \/ CodeFilesLoaded
    \/ PlaceholderShown

SpecDownload == InitDownload /\ [][NextDownload]_vars

\* ---- every view of two listed functions, with the filter and the stream
InitViews ==
    /\ Loaded(<<FnA, FnB>>)
    /\ fReg = <<>>
    /\ fText = <<>>
    /\ fOut = <<>>
    /\ fDone = FALSE
    /\ NoDownload

ViewKeys ==
    UserKey({"enter", "esc", "l", "s", "c", "m", "v", "\\", "down"},
            {"b", "enter", "esc"})

NextViews ==
    \/ ViewKeys
    \/ ResultLoaded
    \/ StreamStarted
    \/ CodeFilesLoaded
    \/ PlaceholderShown

SpecViews == InitViews /\ [][NextViews]_vars

\* ---- one read of the stream (Model.streamLogs) and the goroutine of
\* AWSProvider.StreamFunctionLogs it starts; `streaming` is the goroutine's
\* position, logChan the buffer of its log channel
\* streamLogs calls StreamFunctionLogs: new channels, the goroutine started
AwsCall ==
    /\ ~quit
    /\ streaming = "off"
    /\ InFlight("streamLogs") # {}
    /\ Len(realTimeLogs) < MaxLines
    /\ streaming' = "started"
    /\ logChan' = <<>>
    /\ UNCHANGED <<cloudLogs, lastTimestamp, pollStart, ctxDone>>
    /\ UNCHANGED <<modelVars, pending, envVars, quit, userStopped, pureVars, layoutVars,
                   diskVars, zipVars>>

\* logChan <- LogEntry{Timestamp: time.Now(), ...}
AwsSends ==
    /\ streaming = "started"
    /\ streaming' = "sent"
    /\ logChan' = Append(logChan, now)
    /\ UNCHANGED <<cloudLogs, lastTimestamp, pollStart, ctxDone>>
    /\ UNCHANGED <<modelVars, pending, envVars, quit, userStopped, pureVars, layoutVars,
                   diskVars, zipVars>>

\* the deferred calls run last-in first-out: close(errChan), then
\* close(logChan)
AwsCloses ==
    /\ streaming \in {"sent", "errChan closed"}
    /\ streaming' = IF streaming = "sent" THEN "errChan closed" ELSE "both closed"
    /\ UNCHANGED <<cloudLogs, lastTimestamp, pollStart, ctxDone, logChan>>
    /\ UNCHANGED <<modelVars, pending, envVars, quit, userStopped, pureVars, layoutVars,
                   diskVars, zipVars>>

\* the select of streamLogs takes one of the cases that are ready: an entry
\* in the log channel's buffer, a closed log or error channel, a done context
StreamRead ==
    /\ ~quit
    /\ streaming \notin {"off", "polling", "returned"}
    /\ \E c \in InFlight("streamLogs") :
           \/ /\ logChan # <<>>
              /\ pending' = Issue(Take(pending, c), {EntryMsg(c.fn, c.ctx, Head(logChan))})
           \/ /\ \/ logChan = <<>> /\ streaming = "both closed"
                 \/ streaming \in {"errChan closed", "both closed"}
                 \/ c.ctx = Cancelled
              /\ pending' = Issue(Take(pending, c), {ErrorMsg(c.fn, c.ctx)})
    /\ streaming' = "off"
    /\ logChan' = <<>>
    /\ UNCHANGED <<cloudLogs, lastTimestamp, pollStart, ctxDone>>
    /\ UNCHANGED <<modelVars, envVars, quit, userStopped, pureVars, layoutVars,
                   diskVars, zipVars>>

\* the Logs view of the function just after logStreamStartedMsg was handled
InitAws ==
    /\ functions = <<FnA>> /\ allFunctions = <<FnA>>
    /\ cursor = 0 /\ currentView = LogsView /\ selectedFunc = FnA
    /\ inputMode = NormalMode /\ textInput = <<>>
    /\ filterActive = FALSE /\ activeFilter = <<>>
    /\ loading = FALSE /\ err = FALSE /\ accountID = TRUE
    /\ streamingLogs = TRUE /\ streamCancel = HasCancel /\ logStreamErr = FALSE
    /\ realTimeLogs = <<Line("header", FnA.Name, 0)>>
    /\ content = ShownLines(realTimeLogs)
    /\ editMode = FALSE
    /\ originalContent = Shown("empty", NoName) /\ textarea = Shown("empty", NoName)
    /\ width = 0 /\ height = 0
    /\ pending = SetToBag({ReadCmd(FnA.Name, Current, 0)})
    /\ leaked = 0 /\ now = 0 /\ providerLogs = {}
    /\ quit = FALSE /\ userStopped = FALSE
    /\ fReg = <<>> /\ fText = <<>> /\ fOut = <<>> /\ fDone = FALSE
    /\ NoDownload

\* the user's keys in the runs with one read at a time: pressed while a read
\* of the running stream is in flight, or while nothing of a stream is
AwsKeys ==
    /\ \/ streamingLogs /\ InFlight("streamLogs") # {}
       \/ \A c \in BagToSet(pending) :
              c.cmd \notin {"streamLogs", "startLogStreaming", "newLogEntryMsg",
                            "logStreamErrorMsg"}
    /\ UserKey({"l", "s", "esc"}, {})

NextAws ==
    \/ AwsKeys
    \/ ResultLoaded
    \/ StreamStarted
    \/ AwsCall
    \/ AwsSends
    \/ AwsCloses
    \/ StreamRead
    \/ LogEntryReceived
    \/ StreamErrorReceived

SpecAws == InitAws /\ [][NextAws]_vars

\* ---- the keys of the Normal mode typed into the text input
TypedKeys == {"q", "r", "l", "c", "m", "w", "v", "e", "s"}

TypingKeys == UserKey({"\\", ":", "l", "s"}, TypedKeys \cup {"esc", "ctrl+c"})

NextTyping ==
    \/ TypingKeys
    \/ ResultLoaded
    \/ StreamStarted

SpecTyping == InitViews /\ [][NextTyping]_vars

\* ---- the way back to the list: Esc from every view and input mode, and 'q'
EscKeys ==
    UserKey({"enter", "l", "s", "c", "v", ":", "esc", "q"}, {"q", "esc"})

NextEsc ==
    \/ EscKeys
    \/ ResultLoaded
    \/ StreamStarted
    \/ CodeFilesLoaded
    \/ PlaceholderShown

SpecEsc == InitDownload /\ [][NextEsc]_vars

\* ---- commands and 'q' in the list and in the Details view
NextCommand ==
    \/ UserKey({":", "enter", "esc", "q"},
               {"enter", "esc", "q", "r", " ", "uit", "efresh"})
    \/ FunctionsLoaded({<<FnA>>})

SpecCommand == InitDownload /\ [][NextCommand]_vars

\* ---- every request of the program, from its start, with commands that
\* return: each command in flight runs in a goroutine of its own and its
\* message is read by the event loop, so none waits for ever while it can
\* complete; the user starts or stops the stream only when no start is under
\* way
Requests ==
    {Cmd(k, NoName) : k \in {"fetchFunctions", "fetchAccountID"}}
        \cup {Cmd(k, FnA.Name) : k \in FetchCmds \cup {"downloadingMsg",
                                      "loadingCodeFilesMsg", "startLogStreaming"}}
        \cup {ReadCmd(FnA.Name, x, t) : x \in {Current, Leaked, Cancelled}, t \in 0..MaxTime}
        \cup {EntryMsg(FnA.Name, x, t) : x \in {Current, Leaked, Cancelled}, t \in 0..MaxTime}
        \cup {ErrorMsg(FnA.Name, x) : x \in {Current, Leaked, Cancelled}}

NextDeliver ==
    \/ UserKey({"l", "c", "m", "w", "v", "esc"}, {})
    \/ InFlight("startLogStreaming") = {} /\ UserKey({"s"}, {})
    \/ \E c \in Requests : Completes(c)
    \/ Tick

SpecDeliver ==
    Init /\ [][NextDeliver]_vars /\ \A c \in Requests : WF_vars(Completes(c))

\* ---- the terminal is resized while the Logs view streams
NextResize ==
    \/ StreamKeys
    \/ ResultLoaded
    \/ StreamStarted
    \/ ReadReturns
    \/ LogEntryReceived
    \/ StreamErrorReceived
    \/ Tick
    \/ /\ ~quit
       /\ \E size \in {<<80, 24>>, <<20, 10>>} : handleWindowSize(size[1], size[2])
       /\ UNCHANGED <<userStopped, pureVars, pollVars, diskVars, zipVars>>

SpecResize == InitStream /\ [][NextResize]_vars

\* ---- the Logs view of FnA streaming with a full buffer: the header and
\* LogCap - 1 entries (each read starts Lookback back again, so the store's
\* one entry is received by every read), the next read in flight
InitFullBuffer ==
    /\ functions = <<FnA>> /\ allFunctions = <<FnA>>
    /\ cursor = 0 /\ currentView = LogsView /\ selectedFunc = FnA
    /\ inputMode = NormalMode /\ textInput = <<>>
    /\ filterActive = FALSE /\ activeFilter = <<>>
    /\ loading = FALSE /\ err = FALSE /\ accountID = TRUE
    /\ streamingLogs = TRUE /\ streamCancel = HasCancel /\ logStreamErr = FALSE
    /\ realTimeLogs = [i \in 1..LogCap |->
                           IF i = 1 THEN Line("header", FnA.Name, 0)
                           ELSE Line("entry", NoName, 0)]
    /\ content = ShownLines(realTimeLogs)
    /\ editMode = FALSE
    /\ originalContent = Shown("empty", NoName) /\ textarea = Shown("empty", NoName)
    /\ width = 0 /\ height = 0
    /\ pending = SetToBag({ReadCmd(FnA.Name, Current, 0)})
    /\ leaked = 0 /\ now = 0 /\ providerLogs = {0}
    /\ quit = FALSE /\ userStopped = FALSE
    /\ fReg = <<>> /\ fText = <<>> /\ fOut = <<>> /\ fDone = FALSE
    /\ NoDownload

NextFullBuffer ==
    \/ StreamKeys
    \/ ResultLoaded
    \/ StreamStarted
    \/ ReadReturns
    \/ LogEntryReceived
    \/ StreamErrorReceived

SpecFullBuffer == InitFullBuffer /\ [][NextFullBuffer]_vars

\* ---- one call of GCPProvider.StreamFunctionLogs: its polls of the log
\* time.Format(time.RFC3339): the timestamp cut to the second
FormatRFC3339(t) == t - (t % UnitsPerSecond)

RECURSIVE NewestFirst(_)
\* the entries S as the query returns them: ordered by timestamp, newest first
NewestFirst(S) ==
    IF S = {} THEN <<>>
    ELSE LET newest == CHOOSE t \in S : \A u \in S : u <= t
         IN  <<newest>> \o NewestFirst(S \ {newest})

\* the entries a poll keeps of those in the log, without the test against the
\* high-water mark: all that the query's filter timestamp >= "..." lets through
newEntriesUnskipped(logs, mark) ==
    NewestFirst({t \in logs : t >= FormatRFC3339(mark)})

\* the entries a poll keeps: those the filter lets through that are after
\* the high-water mark
newEntries(logs, mark) ==
    NewestFirst({t \in logs : t >= FormatRFC3339(mark) /\ t > mark})

RECURSIVE SendOldestFirst(_, _, _, _)
\* the sending loop, from index i down: each entry is put on the channel and
\* raises the mark if it is after it; `sent` entries go out before the
\* context is done
SendOldestFirst(entries, i, sent, st) ==
    IF i < 1 \/ sent = 0 THEN st
    ELSE SendOldestFirst(entries, i - 1, sent - 1,
                         [chan |-> Append(st.chan, entries[i]),
                          mark |-> IF entries[i] > st.mark THEN entries[i] ELSE st.mark])

\* the function writes a log entry (its timestamp may lie behind the mark:
\* entries reach the log late)
LogIngested ==
    /\ streaming = "polling"
    /\ \E t \in 0..MaxStamp : cloudLogs' = cloudLogs \cup {t}
    /\ cloudLogs' # cloudLogs
    /\ UNCHANGED <<lastTimestamp, pollStart, ctxDone, logChan, streaming>>
    /\ UNCHANGED <<modelVars, pending, envVars, quit, userStopped, pureVars, layoutVars,
                   diskVars, zipVars>>

\* case <-ticker.C: one poll; the context may be done while it sends, and
\* then the call returns
PollTick ==
    /\ streaming = "polling"
    /\ LET entries == newEntries(cloudLogs, lastTimestamp)
       IN  \E sent \in 0..Len(entries) :
               LET st == SendOldestFirst(entries, Len(entries), sent,
                                         [chan |-> logChan, mark |-> lastTimestamp])
               IN  /\ logChan' = st.chan
                   /\ lastTimestamp' = st.mark
                   /\ streaming' = IF sent < Len(entries) THEN "returned" ELSE "polling"
    /\ pollStart' = lastTimestamp
    /\ UNCHANGED <<cloudLogs, ctxDone>>
    /\ UNCHANGED <<modelVars, pending, envVars, quit, userStopped, pureVars, layoutVars,
                   diskVars, zipVars>>

\* case <-ctx.Done() between two polls
StreamCancelled ==
    /\ streaming = "polling"
    /\ streaming' = "returned"
    /\ UNCHANGED <<cloudLogs, lastTimestamp, pollStart, ctxDone, logChan>>
    /\ UNCHANGED <<modelVars, pending, envVars, quit, userStopped, pureVars, layoutVars,
                   diskVars, zipVars>>

\* the call starts with some entries in the log and the mark a minute back
InitPoll ==
    /\ Loaded(<<FnA>>)
    /\ fReg = <<>> /\ fText = <<>> /\ fOut = <<>> /\ fDone = FALSE
    /\ cloudLogs \in SUBSET (0..MaxStamp)
    /\ lastTimestamp \in 0..MaxStamp
    /\ pollStart = lastTimestamp
    /\ ctxDone = FALSE
    /\ logChan = <<>>
    /\ streaming = "polling"
    /\ disk = NoFiles /\ downloadedOK = {}
    /\ zArchive = NoArchive /\ zErr = FALSE /\ zDone = NotRun

NextPoll ==
    \/ LogIngested
    \/ PollTick
    \/ StreamCancelled

SpecPoll == InitPoll /\ [][NextPoll]_vars

\* ---- the same goroutine step by step, with the cancellation of its context
\* the session's context is cancelled
CtxCancelled ==
    /\ streaming \in {"polling", "iterating", "iterator failing"}
    /\ ~ctxDone
    /\ ctxDone' = TRUE
    /\ UNCHANGED <<cloudLogs, lastTimestamp, pollStart, logChan, streaming>>
    /\ UNCHANGED <<modelVars, pending, envVars, quit, userStopped, pureVars, layoutVars,
                   diskVars, zipVars>>

\* case <-ticker.C: the query is made and the loop over iter.Next() entered;
\* the iterator is one that ends in Done, or one that keeps returning an
\* error (with a cancelled context it is of the second kind)
PollQueries ==
    /\ streaming = "polling"
    /\ \/ ~ctxDone /\ streaming' = "iterating"
       \/ streaming' = "iterator failing"
    /\ pollStart' = lastTimestamp
    /\ UNCHANGED <<cloudLogs, lastTimestamp, ctxDone, logChan>>
    /\ UNCHANGED <<modelVars, pending, envVars, quit, userStopped, pureVars, layoutVars,
                   diskVars, zipVars>>

\* iter.Next() starts to return an error other than Done (the context was
\* cancelled, the connection lost) and keeps returning it: the loop's
\* `continue` calls it again, and no step of the goroutine leaves the loop
IterFails ==
    /\ streaming = "iterating"
    /\ streaming' = "iterator failing"
    /\ UNCHANGED <<cloudLogs, lastTimestamp, pollStart, ctxDone, logChan>>
    /\ UNCHANGED <<modelVars, pending, envVars, quit, userStopped, pureVars, layoutVars,
                   diskVars, zipVars>>

\* iter.Next() returns Done and the new entries are sent; with the context
\* done the send's select may return instead
PollSends ==
    /\ streaming = "iterating"
    /\ LET entries == newEntries(cloudLogs, lastTimestamp)
       IN  \E sent \in 0..Len(entries) :
               LET st == SendOldestFirst(entries, Len(entries), sent,
                                         [chan |-> logChan, mark |-> lastTimestamp])
               IN  /\ sent < Len(entries) => ctxDone
                   /\ logChan' = st.chan
                   /\ lastTimestamp' = st.mark
                   /\ streaming' = IF sent < Len(entries) THEN "returned" ELSE "polling"
    /\ UNCHANGED <<cloudLogs, pollStart, ctxDone>>
    /\ UNCHANGED <<modelVars, pending, envVars, quit, userStopped, pureVars, layoutVars,
                   diskVars, zipVars>>

\* case <-ctx.Done(): return, and the deferred calls close both channels
PollExits ==
    /\ streaming = "polling"
    /\ ctxDone
    /\ streaming' = "returned"
    /\ UNCHANGED <<cloudLogs, lastTimestamp, pollStart, ctxDone, logChan>>
    /\ UNCHANGED <<modelVars, pending, envVars, quit, userStopped, pureVars, layoutVars,
                   diskVars, zipVars>>

NextExit ==
    \/ LogIngested
    \/ CtxCancelled
    \/ PollQueries
    \/ IterFails
    \/ PollSends
    \/ PollExits

\* the goroutine runs on: a step of it that stays possible is taken, and the
\* select takes the done context's case (it chooses at random among the ready
\* cases) if the goroutine comes back to it again and again
SpecExit ==
    /\ InitPoll
    /\ [][NextExit]_vars
    /\ WF_vars(PollQueries)
    /\ WF_vars(PollSends)
    /\ SF_vars(PollExits)

\* ---- the Code view of one function and its edit mode
NextEdit ==
    \/ UserKey({"c", "e", "ctrl+s", "x", "v", "esc"}, {})
    \/ ResultLoaded
    \/ EditSaved
    \/ CodeFilesLoaded
    \/ PlaceholderShown

SpecEdit == InitDownload /\ [][NextEdit]_vars

\* ---- GCPProvider.extractZip and DownloadFunctionCode as functions of the
\* ---- disk and the archive
\* the destination of function a's download
Dest == Join(Downloads, FnA.Name)

EntryNames ==
    { <<"x">>,
      <<".", ".", "/", "x">>,
      <<".", ".", "/", "a", "b", "/", "x">>,
      <<>>,
      <<".">>,
      <<"d", "/">>,
      <<"d", "/", "y">>,
      <<"d", "/", ".", ".", "/", ".", ".", "/", "y">>,
      <<"/", "x">> }

ZipEntries == {Entry(n, FALSE) : n \in EntryNames} \cup {Entry(<<"x">>, TRUE)}

Archives == {Archive(es, c) : es \in SeqsUpTo(ZipEntries, MaxEntries), c \in BOOLEAN}

\* the disk a previous download of function a left
PriorDisk ==
    extractEntries(MkdirAll(NoFiles, Dest).fs, Dest,
                   <<Entry(<<"x">>, FALSE), Entry(<<"d", "/", "y">>, FALSE)>>, "old").fs

InitZip ==
    /\ Loaded(<<FnA>>)
    /\ fReg = <<>>
    /\ fText = <<>>
    /\ fOut = <<>>
    /\ fDone = FALSE
    /\ cloudLogs = {} /\ lastTimestamp = 0 /\ pollStart = 0 /\ ctxDone = FALSE
    /\ logChan = <<>> /\ streaming = "off"
    /\ disk \in {NoFiles, MkdirAll(NoFiles, Dest).fs, PriorDisk}
    /\ downloadedOK = {}
    /\ zArchive \in Archives
    /\ zErr = FALSE
    /\ zDone = NotRun

\* extractZip runs on the archive drawn, in the destination its caller made
ExtractZipRuns ==
    /\ zDone = NotRun
    /\ Dest \in DOMAIN disk
    /\ LET r == extractZip(disk, Dest, zArchive, "new")
       IN  disk' = r.fs /\ zErr' = r.err
    /\ zDone' = "extractZip"
    /\ UNCHANGED <<modelVars, pending, envVars, quit, userStopped, pureVars, layoutVars, pollVars,
                   downloadedOK, zArchive>>

\* DownloadFunctionCode runs for function a, whose source is the archive drawn
DownloadRuns ==
    /\ zDone = NotRun
    /\ LET r == DownloadFunctionCode(disk, Dest, Source("archive", zArchive), "new")
       IN  disk' = r.fs /\ zErr' = r.err
    /\ zDone' = "download"
    /\ UNCHANGED <<modelVars, pending, envVars, quit, userStopped, pureVars, layoutVars, pollVars,
                   downloadedOK, zArchive>>

NextZip ==
    \/ ExtractZipRuns
    \/ DownloadRuns

SpecZip == InitZip /\ [][NextZip]_vars

\* ------------------------------------------------------------ the claims
StreamMsgs == InFlight("newLogEntryMsg") \cup InFlight("logStreamErrorMsg")

\* a message of a read whose context is not the current session's: the
\* session was stopped or superseded
Stale(c) == c.ctx # Current

\* Update handles the stream message c in this step
Handles(c) ==
    \/ c.cmd = "newLogEntryMsg" /\ newLogEntry(c.at, Take(pending, c))
    \/ c.cmd = "logStreamErrorMsg" /\ logStreamError(Take(pending, c))

\* C1: in every reachable state at most one log-stream session is live
\* (its context created and not yet cancelled).
C1_AtMostOneLiveSession == LiveSessions <= 1

\* C2: whenever the current view is not Logs, no stream session is live and
\* streamingLogs is false.
C2_NoSessionOutsideLogs ==
    currentView # LogsView => (LiveSessions = 0 /\ ~streamingLogs)

\* C3: a log-entry or stream-error message made by a stopped or superseded
\* session is never applied: handling it leaves the log buffer and the
\* current session (its flag, its handle, its context and its read) as they
\* were.
C3_StaleMessageNotApplied ==
    [][\A c \in StreamMsgs :
           (Stale(c) /\ Handles(c)) =>
               /\ UNCHANGED <<realTimeLogs, streamingLogs, streamCancel>>
               /\ pending' = Take(pending, c)]_vars

\* C4: once the user has stopped streaming ('s' while streaming, 'l' refresh
\* in Logs, Esc out of Logs) and has not asked to start it again, handling a
\* log-entry or stream-error message appends nothing to the log buffer and
\* leaves the displayed content unchanged.
C4_NoAppendAfterStop ==
    [][\A c \in StreamMsgs :
           (userStopped /\ Handles(c)) => UNCHANGED <<realTimeLogs, content>>]_vars

EntryLines == {i \in DOMAIN realTimeLogs : realTimeLogs[i].kind = "entry"}

\* C5: within one streaming run the entries appended to the log buffer have
\* non-decreasing timestamps and no provider entry is appended twice (the
\* store holds one entry per timestamp).
C5_OrderedNoDuplicates ==
    \A i, j \in EntryLines :
        i < j => /\ realTimeLogs[i].ts <= realTimeLogs[j].ts
                 /\ realTimeLogs[i].ts # realTimeLogs[j].ts

\* the view a fetch command was issued for
OwnerView(cmd) ==
    CASE cmd = "fetchFunctionLogs" -> LogsView
      [] cmd = "fetchFunctionMetrics" -> MetricsView
      [] cmd = "fetchFunctionCode" -> CodeView
      [] cmd = "loadCodeFiles" -> CodeDisplayView
      [] cmd = "downloadFunctionCode" -> ListView

\* the view that issued c is still current, on c's function (for a download:
\* the list, with the function under the cursor)
StillOwner(c) ==
    /\ currentView = OwnerView(c.cmd)
    /\ IF c.cmd = "downloadFunctionCode"
       THEN Selectable /\ UnderCursor.Name = c.fn
       ELSE selectedFunc.Name = c.fn

FetchesInFlight == {c \in BagToSet(pending) : c.cmd \in FetchCmds}

\* C6: the result of a logs, code-info, metrics, code-files or download
\* request issued for f from view V changes the displayed content only if
\* the current view is still V with f selected.
C6_ResultOnlyInOwnView ==
    [][\A c \in FetchesInFlight, ok \in BOOLEAN :
           (resultLoaded(ResultKind(c.cmd), c.fn, ok, Take(pending, c))
                /\ content' # content) => StillOwner(c)]_vars

\* C7: at most one fetch of a kind is in flight per function and at most one
\* listing fetch is in flight.
C7_NoDuplicateFetch ==
    \A c \in BagToSet(pending) :
        c.cmd \in FetchCmds \cup {"fetchFunctions"} => CopiesIn(c, pending) <= 1

\* the filter text in force: the typed text in Filter mode, else the
\* committed filter, else none
FilterInForce ==
    IF inputMode = FilterMode THEN textInput
    ELSE IF filterActive THEN activeFilter
    ELSE <<>>

\* C8: the displayed function list always equals the filter applied to the
\* current registry and the filter text in force.
C8_DisplayedIsFilterOfRegistry ==
    functions = filterFunctions(allFunctions, FilterInForce)

Range(q) == {q[i] : i \in DOMAIN q}

\* characters equal up to case
EqualFold(a, b) ==
    \/ a = b
    \/ <<a, b>> \in {<<"a", "A">>, <<"A", "a">>, <<"b", "B">>, <<"B", "b">>}

\* s holds t as a substring, letter case ignored
ContainsFold(s, t) ==
    \E i \in 0..(Len(s) - Len(t)) : \A j \in 1..Len(t) : EqualFold(s[i + j], t[j])

MatchesFold(fn, t) ==
    \/ ContainsFold(fn.Name, t)
    \/ ContainsFold(fn.Runtime, t)
    \/ ContainsFold(fn.Description, t)

\* out holds exactly the elements of reg that match t, in registry order
ExactlyMatching(out, reg, t) ==
    \E keep \in SUBSET DOMAIN reg :
        /\ keep = {i \in DOMAIN reg : MatchesFold(reg[i], t)}
        /\ Len(out) = Cardinality(keep)
        /\ \A k \in 1..Len(out) :
               \E i \in keep :
                   /\ Cardinality({h \in keep : h <= i}) = k
                   /\ out[k] = reg[i]

\* C9 as claimed: filterFunctions yields exactly the elements of R whose
\* name, runtime or description contains f, case ignored; all of R for "".
C9_FilterExactAsClaimed ==
    fDone => /\ ExactlyMatching(fOut, fReg, fText)
             /\ (fText = <<>> => fOut = fReg)

\* spaces at both ends removed
RECURSIVE Trimmed(_)
Trimmed(s) ==
    IF s = <<>> THEN s
    ELSE IF s[1] = " " THEN Trimmed(Tail(s))
    ELSE IF s[Len(s)] = " " THEN Trimmed(SubSeq(s, 1, Len(s) - 1))
    ELSE s

\* C9 amended: filterFunctions yields exactly the elements of R (in registry
\* order) whose name, runtime or description contains f with the white space
\* at its ends removed, case ignored; all of R when f is empty or blank.
C9_FilterExactOnTrimmed ==
    fDone => /\ ExactlyMatching(fOut, fReg, Trimmed(fText))
             /\ (Trimmed(fText) = <<>> => fOut = fReg)

\* C9 witness: a filter text with a space at an end was applied to a registry
\* of which it keeps some elements and drops others.
C9_Witness ==
    /\ fDone
    /\ fText # <<>> /\ Trimmed(fText) # fText /\ Trimmed(fText) # <<>>
    /\ fOut # <<>> /\ fOut # fReg

\* C10: every element of the displayed list is an element of the current
\* registry (so after a listing result replaced the registry, nothing that
\* was only in the previous registry is still displayed).
C10_DisplayedWithinRegistry ==
    Range(functions) \subseteq Range(allFunctions)

\* C10 witness: the filter "r" keeps only FnB, yet the list shows FnA under
\* that committed filter: a listing result replaced the registry (FnB gone)
\* after the filter was applied.
C10_Witness ==
    /\ filterActive /\ activeFilter = <<"r">>
    /\ allFunctions = <<FnA>>
    /\ functions = <<FnA>>

\* C11: no function-specific view is open on a function that is absent from
\* the current registry (a listing result that drops the selected function
\* sends the view back to List).
C11_NoViewOnAbsentFunction ==
    currentView # ListView =>
        \E i \in DOMAIN allFunctions : allFunctions[i].Name = selectedFunc.Name

\* C12: handling the result of 'v' (loadCodeFiles) for a function no download
\* of which has succeeded shows the precondition error (code not downloaded
\* yet, download first), also after a download that failed on an unsupported
\* source type and left the destination directory behind.
C12_ViewNeedsSuccessfulDownload ==
    [][\A c \in InFlight("loadCodeFiles"), shown \in CodeFilesTexts :
           (c.fn \notin downloadedOK /\ codeFilesLoaded(shown, c.fn, Take(pending, c)))
               => shown = NotDownloadedYet]_vars

RECURSIVE Resolve(_, _)
\* where the elements `elems` lead from the directory `at` (a sequence of
\* names below the working directory; ".." once above it)
Resolve(at, elems) ==
    IF elems = <<>> THEN at
    ELSE LET e == Head(elems)
         IN  IF e = <<>> \/ e = <<".">> THEN Resolve(at, Tail(elems))
             ELSE IF e = <<".", ".">> /\ at # <<>> /\ at[Len(at)] # <<".", ".">>
             THEN Resolve(SubSeq(at, 1, Len(at) - 1), Tail(elems))
             ELSE Resolve(Append(at, e), Tail(elems))

DestElements == <<Downloads, FnA.Name>>

\* the place named by these elements lies inside the destination directory
\* (and is not the destination itself)
InsideDest(elems) ==
    /\ Len(elems) > Len(DestElements)
    /\ SubSeq(elems, 1, Len(DestElements)) = DestElements

\* where entry i of the archive drawn resolves to
EntryTarget(i) == Resolve(DestElements, SplitPath(zArchive.entries[i].name))

\* the entries of the archive drawn that resolve outside the destination
Escaping == {i \in DOMAIN zArchive.entries : ~InsideDest(EntryTarget(i))}

\* the paths of the disk created or rewritten by this step
Touched == {p \in DOMAIN disk' : p \notin DOMAIN disk \/ disk'[p] # disk[p]}

\* p is the target of entry i or a directory above it
OnTheWayTo(p, i) ==
    LET target == EntryTarget(i)
    IN  \E n \in 1..Len(target) : SplitPath(p) = SubSeq(target, 1, n)

\* C13: extractZip creates or writes nothing outside the destination
\* directory; when an entry resolves outside it (or to it), extractZip
\* returns an error and what it wrote belongs to the entries before the
\* first such entry only.
C13_ExtractStaysInside ==
    [][ExtractZipRuns =>
           /\ \A p \in Touched : InsideDest(SplitPath(p))
           /\ (~zArchive.corrupt /\ Escaping # {}) =>
                  /\ zErr'
                  /\ \A p \in Touched :
                         \E i \in DOMAIN zArchive.entries :
                             /\ \A j \in Escaping : i < j
                             /\ OnTheWayTo(p, i)]_vars

\* C13 witness: extractZip has written the entries before an escaping entry
\* and has returned the error.
C13_Witness ==
    /\ zDone = "extractZip" /\ zErr
    /\ ~zArchive.corrupt
    /\ Escaping # {} /\ 1 \notin Escaping
    /\ \E p \in DOMAIN disk : disk[p] = "new"

\* the files in the destination directory, with their data
FilesInDest(fs) ==
    {<<q, fs[q]>> : q \in {p \in DOMAIN fs : fs[p] # IsDir /\ InsideDest(SplitPath(p))}}

\* C14: when a download fails on an archive that is corrupt or holds an
\* entry escaping the destination, the files that were in the function's
\* download directory before it are unchanged and no new file is left there.
C14_FailedDownloadLeavesFiles ==
    [][(DownloadRuns /\ zErr' /\ (zArchive.corrupt \/ Escaping # {}))
           => FilesInDest(disk') = FilesInDest(disk)]_vars

\* C16: Esc pressed while edit mode is active leaves edit mode inactive and
\* the displayed content equal to the content from before editing started
\* (what pressing 'e' recorded), not the edit buffer.
C16_EscLeavesEditMode ==
    [][(editMode /\ inputMode = NormalMode /\ handleKeyPress("esc"))
           => (~editMode' /\ Rendered(content') = originalContent)]_vars

\* C17: in every state reached edit mode is active only while the current
\* view is Code; and a Ctrl+S that changes anything was pressed in edit mode,
\* replaces the display by the edit buffer, leaves edit mode and issues one
\* save confirmation, while Ctrl+S outside edit mode changes nothing.
C17_EditModeOnlyInCode ==
    [][/\ editMode' => currentView' = CodeView
       /\ (inputMode = NormalMode /\ handleKeyPress("ctrl+s")) =>
              IF editMode /\ <<modelVars, pending>>' # <<modelVars, pending>>
              THEN /\ content' = textarea
                   /\ ~editMode'
                   /\ pending' = pending (+) SetToBag({Cmd("editSavedMsg", NoName)})
              ELSE UNCHANGED <<modelVars, pending, quit>>]_vars

\* C15: the input mode is Filter or Command only while the current view is
\* List (so no command can be typed and executed from a nested view).
C15_InputModeOnlyInList ==
    inputMode # NormalMode => currentView = ListView

\* what Enter in Command mode does when the command vocabulary is applied to
\* the text b: ":q", ":quit" quit; ":r", ":refresh" set loading and issue one
\* listing fetch; anything else issues nothing and changes nothing else
CommandOutcome(b) ==
    /\ inputMode' = NormalMode
    /\ IF b \in {<<":", "q">>, <<":", "q">> \o <<"u", "i", "t">>}
       THEN quit'
       ELSE IF b \in {<<":", "r">>, <<":", "r">> \o <<"e", "f", "r", "e", "s", "h">>}
       THEN /\ loading'
            /\ pending' = pending (+) SetToBag({Cmd("fetchFunctions", NoName)})
       ELSE UNCHANGED <<navVars, listVars, streamVars, editVars, content,
                        pending, quit>>

\* C18 as stated: Enter in Command mode returns to Normal mode and applies
\* the command vocabulary to the buffer itself (":q" or ":quit" quits, ":r"
\* or ":refresh" refreshes, every other buffer does nothing).
C18_EnterRunsBufferAsClaimed ==
    [][(inputMode = CommandMode /\ handleKeyPress("enter"))
           => CommandOutcome(textInput)]_vars

\* C18 amended: Enter in Command mode returns to Normal mode and applies the
\* command vocabulary to the buffer with the white space around it removed
\* (so ":q " quits too).
C18_EnterRunsTrimmedBuffer ==
    [][(inputMode = CommandMode /\ handleKeyPress("enter"))
           => CommandOutcome(TrimSpace(textInput))]_vars

\* C18 witness: the program has quit in the Details view, where 'q' does not
\* quit, on Enter with the buffer ":q " in Command mode.
C18_Witness ==
    /\ quit /\ currentView = DetailView
    /\ inputMode = NormalMode
    /\ textInput = <<":", "q", " ">>

C19_FilterEnterAndEsc ==
    [][/\ (inputMode = FilterMode /\ handleKeyPress("enter")) =>
              /\ inputMode' = NormalMode
              /\ TrimSpace(textInput) # <<>> =>
                     /\ filterActive' /\ activeFilter' = TrimSpace(textInput)
                     /\ functions' = filterFunctions(allFunctions', activeFilter')
       /\ (inputMode = FilterMode /\ handleKeyPress("esc")) =>
              /\ inputMode' = NormalMode
              /\ ~filterActive' /\ activeFilter' = <<>>
              /\ functions' = allFunctions']_vars

\* the context of the read or message c is cancelled or replaced in this
\* step: c goes on in flight under the context's new standing
Superseded(c) ==
    c.ctx = Current /\ c \in BagToSet(pending) /\ c \notin BagToSet(pending')

C22_ResizeChangesLayoutOnly ==
    [][layoutVars' # layoutVars => UNCHANGED <<modelVars, pending, quit>>]_vars

\* C22 witness: the terminal was resized to 20 x 10 (the table gets its
\* smallest height) while the Logs view was streaming with an entry shown.
C22_Witness ==
    /\ width = 20 /\ height = 10 /\ TableHeight(height) = 5
    /\ currentView = LogsView /\ streamingLogs
    /\ Len(realTimeLogs) > 1

\* C23: in every state reached the real-time log buffer holds at most 1000
\* lines, whichever line was added last: a log entry, the stop marker or the
\* stream-error marker.
C23_BufferWithinCap == Len(realTimeLogs) <= LogCap

\* C24: when Update handles a stream-error message while a session is
\* active, the session becomes inactive (streamingLogs false, the cancel
\* function called so that no read holds a live current context, the handle
\* cleared) and the log buffer afterwards is the buffer before with exactly
\* one error marker line appended, also when the buffer was full.
C24_StreamErrorStopsAndAppends ==
    [][\A c \in InFlight("logStreamErrorMsg") :
           (streamingLogs /\ logStreamError(Take(pending, c))) =>
               /\ ~streamingLogs'
               /\ streamCancel' = NoCancel
               /\ \A d \in BagToSet(pending') : d.ctx # Current
               /\ realTimeLogs' = Append(realTimeLogs, Line("error", NoName, 0))]_vars

\* C24 witness: a stream error was handled on the full buffer: the session
\* is inactive and the marker is the line after the LogCap lines.
C24_Witness ==
    /\ ~streamingLogs /\ streamCancel = NoCancel /\ logStreamErr
    /\ Len(realTimeLogs) = LogCap + 1
    /\ realTimeLogs[LogCap + 1].kind = "error"

\* C25: a successful listing result replaces the registry and the displayed
\* list by the received listing in one step; a failed one leaves both as
\* they were and records the error; in both cases loading becomes false.
C25_ListingReplacesOrKeeps ==
    [][\A c \in InFlight("fetchFunctions") :
           /\ \A fns \in Registries :
                  handleFunctionsLoaded(TRUE, fns, Take(pending, c)) =>
                      /\ allFunctions' = fns /\ functions' = fns
                      /\ ~loading'
           /\ handleFunctionsLoaded(FALSE, <<>>, Take(pending, c)) =>
                  /\ UNCHANGED <<allFunctions, functions>>
                  /\ err' /\ ~loading']_vars

\* C25 witness: a listing has failed and the lists still hold the functions
\* of the listing received before or after it.
C25_Witness ==
    /\ err /\ ~loading
    /\ allFunctions # <<>> /\ functions = allFunctions
    /\ InFlight("fetchFunctions") = {}

\* the (view, input mode) pair handleKeyPress(k) leads to from the current
\* state
ViewModeAfter(k) ==
    IF inputMode # NormalMode
    THEN <<currentView, IF k \in {"esc", "enter"} THEN NormalMode ELSE inputMode>>
    ELSE CASE k = "\\" ->
                  <<currentView, IF currentView = ListView THEN FilterMode ELSE inputMode>>
           [] k = ":" -> <<currentView, CommandMode>>
           [] k = "esc" ->
                  <<IF currentView = CodeDisplayView THEN CodeView ELSE ListView, inputMode>>
           [] k \in {"enter", "l", "c", "m"} ->
                  <<IF currentView = ListView /\ Selectable
                    THEN (CASE k = "enter" -> DetailView
                            [] k = "l" -> LogsView
                            [] k = "c" -> CodeView
                            [] k = "m" -> MetricsView)
                    ELSE currentView, inputMode>>
           [] k = "v" ->
                  <<IF currentView = CodeView /\ selectedFunc # NoFunc
                    THEN CodeDisplayView ELSE currentView, inputMode>>
           [] OTHER -> <<currentView, inputMode>>

\* C26: the (view, input mode) pair reached by a sequence of keys does not
\* depend on when the asynchronous results are handled between the keys: a
\* result handled just before a key instead of just after it leaves the
\* pair that key leads to the same (handling a result changes neither the
\* pair nor the pair any key leads to).
C26_ViewModeIndependentOfResults ==
    [][\A c \in Requests :
           Completes(c) =>
               /\ <<currentView, inputMode>>' = <<currentView, inputMode>>
               /\ \A k \in {"enter", "l", "c", "m", "v", "esc", "\\", ":", "q", "s", "w"} :
                      ViewModeAfter(k)' = ViewModeAfter(k)]_vars

\* the last n entries of the channel's history
LastSent(chan, n) == SubSeq(chan, Len(chan) - n + 1, Len(chan))

\* C27: within one call of StreamFunctionLogs every entry a poll puts on the
\* log channel has a timestamp strictly greater than the high-water mark
\* held when the poll began; the entries put on the channel are
\* non-decreasing in timestamp; and after each poll that found the channel
\* used the mark is the greatest timestamp emitted so far, and it never
\* decreases.
C27_PollsEmitPastTheMark ==
    [][PollTick =>
           /\ \A i \in Len(logChan) + 1 .. Len(logChan') : logChan'[i] > lastTimestamp
           /\ \A i, j \in DOMAIN logChan' : i <= j => logChan'[i] <= logChan'[j]
           /\ logChan' # <<>> =>
                  /\ \A i \in DOMAIN logChan' : logChan'[i] <= lastTimestamp'
                  /\ \E i \in DOMAIN logChan' : logChan'[i] = lastTimestamp'
           /\ lastTimestamp' >= lastTimestamp]_vars

\* C27 witness: a poll has put two entries on the channel and raised the
\* mark; an entry stamped in the second of the old mark but not after it
\* was in the log and was not emitted.
C27_Witness ==
    /\ Len(logChan) >= 2
    /\ pollStart > 0 /\ pollStart < lastTimestamp
    /\ \E t \in cloudLogs :
           /\ t >= FormatRFC3339(pollStart) /\ t < pollStart
           /\ \A i \in DOMAIN logChan : logChan[i] # t

\* the answers of Functions.Get with a source the provider cannot download:
\* an upload URL, or no source at all
UnsupportedSources == {Source(k, NoArchive) : k \in {"upload url", "none"}}

\* C28: a download of a function whose source location type is unsupported
\* or absent ends in one download-failed result put on the viewport for that
\* function; handling it takes the command out of flight and issues nothing
\* (no retry), leaves the view, the mode and the selection alone, records no
\* successful download, and the program keeps running.
C28_UnsupportedSourceFailsOnce ==
    [][DownloadDone(UnsupportedSources) =>
           /\ \E c \in InFlight("downloadFunctionCode") :
                  /\ content' = Shown("download error", c.fn)
                  /\ pending' = Take(pending, c)
           /\ UNCHANGED <<navVars, inputVars, listVars, downloadedOK, quit>>
           /\ ~quit']_vars

\* C28 witness: the download of the function has failed after its directory
\* was made, nothing was written under it, and no download is in flight.
C28_Witness ==
    /\ content = Shown("download error", FnA.Name)
    /\ Join(Downloads, FnA.Name) \in DOMAIN disk
    /\ \A q \in DOMAIN disk : q \in {Downloads, Join(Downloads, FnA.Name)}
    /\ InFlight("downloadFunctionCode") = {}
    /\ currentView = ListView
    /\ ~quit

\* where Esc leads from a view
EscTarget(view) ==
    IF view = CodeDisplayView THEN CodeView ELSE ListView

\* C29: Esc in Normal mode moves the view from CodeFiles to Code and from
\* Detail, Logs, Code and Metrics to List, and touches neither the filter nor
\* the displayed list there; in List with an active filter it clears the
\* filter and displays the full registry; in List without one it changes
\* nothing. It never issues a task and never quits.
C29_EscMovesTheView ==
    [][inputMode = NormalMode /\ handleKeyPress("esc") =>
           /\ currentView' = EscTarget(currentView)
           /\ currentView # ListView =>
                  UNCHANGED <<functions, allFunctions, filterActive, activeFilter>>
           /\ currentView = ListView /\ filterActive =>
                  /\ ~filterActive'
                  /\ activeFilter' = <<>>
                  /\ functions' = allFunctions
                  /\ allFunctions' = allFunctions
           /\ currentView = ListView /\ ~filterActive => UNCHANGED <<modelVars, pending>>
           /\ BagCardinality(pending') = BagCardinality(pending)
           /\ \A c \in BagToSet(pending') :
                  \E d \in BagToSet(pending) : d.cmd = c.cmd /\ d.fn = c.fn /\ d.at = c.at
           /\ quit' = quit]_vars

\* C29 witness: the full list is displayed again with no filter, the text
\* typed for the filter still in the input; the function the filter had left
\* at the top was opened, and Esc led back to the list.
C29_Witness ==
    /\ currentView = ListView
    /\ ~filterActive /\ activeFilter = <<>>
    /\ functions = <<FnA, FnB>>
    /\ selectedFunc = FnB
    /\ cursor = 0
    /\ textInput = <<"b">>

\* the view a key opens from the list, and the fetch it issues there
ListKeyView(k) ==
    CASE k = "enter" -> DetailView
      [] k = "l" -> LogsView
      [] k = "c" -> CodeView
      [] k = "m" -> MetricsView

ListKeyFetch(k) ==
    CASE k = "l" -> "fetchFunctionLogs"
      [] k = "c" -> "fetchFunctionCode"
      [] k = "m" -> "fetchFunctionMetrics"

\* C30: in the List view Enter, 'l', 'c' and 'm' change the view only when
\* the displayed list is non-empty and the cursor is inside it; then the
\* selected function is the displayed element at the cursor, Enter issues
\* nothing and 'l', 'c', 'm' issue exactly one fetch with that function's
\* name; otherwise (empty list, or cursor past its end) view, selection and
\* tasks stay as they are.
C30_ListKeysNeedASelection ==
    [][\A k \in {"enter", "l", "c", "m"} :
           inputMode = NormalMode /\ currentView = ListView /\ handleKeyPress(k) =>
               IF Len(functions) > 0 /\ cursor < Len(functions)
               THEN /\ currentView' = ListKeyView(k)
                    /\ selectedFunc' = functions[cursor + 1]
                    /\ pending' = IF k = "enter" THEN pending
                                  ELSE pending (+) SetToBag({Cmd(ListKeyFetch(k),
                                                                functions[cursor + 1].Name)})
               ELSE UNCHANGED <<currentView, selectedFunc, pending>>]_vars

\* C30 witness: 'm' on the second row of the list has opened the Metrics
\* view of the second function with one metrics fetch for it in flight.
C30_Witness ==
    /\ currentView = MetricsView
    /\ cursor = 1 /\ functions = <<FnA, FnB>>
    /\ selectedFunc = FnB
    /\ pending = SetToBag({Cmd("fetchFunctionMetrics", FnB.Name)})

\* C31: 'w' in the List view with a function under the cursor issues the
\* download of that function (with its progress message) and leaves view,
\* input mode and selection alone; in another view, or with nothing under
\* the cursor, it issues nothing; the progress message and the download's
\* result leave the view alone.
C31_DownloadKeepsTheView ==
    [][/\ inputMode = NormalMode /\ handleKeyPress("w") =>
              /\ UNCHANGED <<currentView, inputMode, selectedFunc>>
              /\ pending' =
                     IF currentView = ListView /\ Selectable
                     THEN pending (+) SetToBag({Cmd("downloadingMsg", UnderCursor.Name)})
                                  (+) SetToBag({Cmd("downloadFunctionCode", UnderCursor.Name)})
                     ELSE pending
       /\ PlaceholderShown \/ FetchDownload => UNCHANGED <<currentView, inputMode, selectedFunc>>
      ]_vars

\* C31 witness: 'w' on the second row; the progress message and the result
\* were handled; the list is still shown and nothing was ever selected.
C31_Witness ==
    /\ currentView = ListView /\ inputMode = NormalMode
    /\ cursor = 1 /\ selectedFunc = NoFunc
    /\ content = Shown("download error", FnB.Name)
    /\ pending = EmptyBag

\* the command dispatched together with a placeholder message, and the
\* texts its result puts on the viewport
ResultCmdOf(placeholder) ==
    IF placeholder = "downloadingMsg" THEN "downloadFunctionCode" ELSE "loadCodeFiles"

ResultTextsOf(placeholder) ==
    IF placeholder = "downloadingMsg" THEN {"download", "download error"}
    ELSE CodeFilesTexts

\* C32: for the pair of events 'w' and 'v' dispatch together, the
\* placeholder message is never handled when the result of the same request
\* is what the viewport shows (the result's command no longer in flight):
\* the placeholder never overwrites the result.
C32_PlaceholderNeverOverwritesResult ==
    [][\A c \in InFlight("downloadingMsg") \cup InFlight("loadingCodeFilesMsg") :
           /\ placeholderMsg(c.cmd, c.fn, Take(pending, c))
           /\ \A d \in InFlight(ResultCmdOf(c.cmd)) : d.fn # c.fn
           => ~(content.kind \in ResultTextsOf(c.cmd) /\ content.fn = c.fn)]_vars

\* C33: once a listing fetch has completed successfully the model holds no
\* listing error (stated for the successful results that bring a list other
\* than the one displayed, whose steps no failed result can make).
C33_SuccessClearsListingError ==
    [][\A c \in InFlight("fetchFunctions"), fns \in {<<FnA>>, <<FnA, FnB>>} :
           functions # fns /\ handleFunctionsLoaded(TRUE, fns, Take(pending, c))
           => ~err']_vars

\* C34: in every reachable state the loading flag is true exactly when at
\* least one listing fetch is in flight.
C34_LoadingIffListingInFlight ==
    loading <=> InFlight("fetchFunctions") # {}

\* the presses of Esc that lead to the List view in Normal mode: one to
\* leave the text input, then two from CodeFiles, one from the other views
EscDistance ==
    (IF inputMode = NormalMode THEN 0 ELSE 1)
    + (IF currentView = ListView THEN 0 ELSE IF currentView = CodeDisplayView THEN 2 ELSE 1)

C36_SentEntryIsDelivered ==
    [][StreamRead /\ logChan # <<>>
           /\ (\A c \in InFlight("streamLogs") : c.ctx # Cancelled)
           => InFlight("logStreamErrorMsg")' = {}]_vars

\* C37: once the context of a stream session is cancelled, the provider's
\* polling goroutine eventually returns (and so closes both channels).
C37_CancelledPollerExits ==
    ctxDone ~> (streaming = "returned")

\* C38: in every reachable state the stream's cancel handle is set exactly
\* when streamingLogs is true (so a handler that clears one clears the
\* other), and no handler replaces a handle without cancelling it (no
\* context is left live without its handle).
C38_HandleIffStreaming ==
    /\ [](streamCancel # NoCancel <=> streamingLogs)
    /\ [][leaked' = leaked]_vars

\* C39: while the input mode is Filter or Command the keys 'q', 'r', 'l',
\* 'c', 'm', 'w', 'v', 'e', 's' only append themselves to the input buffer
\* and, in Filter mode, recompute the displayed list from it: view, selection,
\* input mode, edit and stream state, the commands in flight and quit stay.
C39_TypedKeysOnlyEditTheBuffer ==
    [][\A k \in TypedKeys :
           inputMode # NormalMode /\ handleKeyPress(k) =>
               /\ textInput' = Append(textInput, k)
               /\ functions' = IF inputMode = FilterMode
                               THEN filterFunctions(allFunctions, textInput')
                               ELSE functions
               /\ UNCHANGED <<navVars, inputMode, editVars, streamVars, allFunctions,
                              filterActive, activeFilter, loading, err, content,
                              pending, quit>>]_vars

\* C39 witness: 'q' and 's' were typed into the command input over the Logs
\* view while it streams; the program runs on, the stream is not stopped and
\* no second one is asked for.
C39_Witness ==
    /\ inputMode = CommandMode
    /\ textInput = <<":", "q", "s">>
    /\ currentView = LogsView
    /\ ~quit /\ streamingLogs
    /\ InFlight("startLogStreaming") = {}

\* C40: in every reachable state in which the view is not the list, or
\* streamingLogs is true, a function is selected; so the log-entry handler
\* finds a selection whose name it reads.
C40_SelectionSetOutsideTheList ==
    (currentView # ListView \/ streamingLogs) => selectedFunc # NoFunc

\* C40 witness: the stream has delivered an entry and the handler has issued
\* the next read under the selected function's name.
C40_Witness ==
    /\ streamingLogs
    /\ Len(realTimeLogs) >= 2
    /\ selectedFunc = FnA
    /\ ReadCmd(FnA.Name, Current, now) \in InFlight("streamLogs")

====
